---- MODULE Spec2Model ----
(***************************************************************************)
(* MoonSQL storage substrate: slotted page (storage/page.py), paged file   *)
(* manager (storage/file_manager.py), buffer pool (storage/buffer.py),     *)
(* record codec (storage/serdes.py) and storage engine                     *)
(* (storage/storage_engine.py).                                            *)
(*                                                                         *)
(* Five specifications share the module:                                   *)
(*   PageSpec   - one SlottedPage under insert / delete                    *)
(*   PoolSpec   - the BufferPool API over existing table files             *)
(*   Spec       - the StorageEngine table and row operations               *)
(*   ExecSpec   - the DML and ALTER TABLE operators (engine/executor.py)   *)
(*                over the catalog (engine/catalog_mgr.py) and the foreign *)
(*                keys (engine/constraints.py, constraint_validator.py)    *)
(*   FuncSpec   - one call of a query operator or of the record codec:     *)
(*                expression evaluation (sql/expressions.py), grouping     *)
(*                and aggregation (engine/aggregate.py), LIMIT             *)
(*                (engine/sort.py), LEFT join (engine/join.py)             *)
(*                                                                         *)
(* A byte string is modelled as [len |-> its length, body |-> its content].*)
(* The 4096-byte page buffer is modelled by its header fields, its slot    *)
(* directory and the set of byte ranges written into the record area       *)
(* ("cells"); a write clobbers every cell it overlaps.                     *)
(***************************************************************************)
EXTENDS Integers, Sequences, FiniteSets, TLC

VARIABLES
    pg,           \* PageSpec: the SlottedPage under test
    issued,       \* PageSpec: slot ids returned by successful inserts so far
    cache,        \* BufferPool.cache: cache key -> page
    cache_order,  \* key order of BufferPool.cache (OrderedDict / dict order)
    fifo_queue,   \* BufferPool.fifo_queue (FIFO policy only)
    dirty_pages,  \* BufferPool.dirty_pages
    disk,         \* table name -> data pages 1..page_count-1 of <table>.tbl
    capacity,     \* BufferPool.capacity
    policy,       \* BufferPool.policy
    put_log,      \* PoolSpec: key -> page given to the latest put_page
    accessed,     \* PoolSpec: cached keys, least recently got or put first
    entered,      \* PoolSpec: cached keys, earliest entered first
    inserted,     \* Spec: rows given to successful insert_row calls, in order
    fresh,        \* Spec: no delete_where / update_where has run yet
    tables,       \* StorageEngine.tables: names of the tables in the metadata
    store,        \* ExecSpec: table name -> schema and data pages of the table
    catalog,      \* ExecSpec: CatalogManager caches and the rows of sys_tables
    fk_cache,     \* ExecSpec: ConstraintManager.fk_cache, in fk_id order
    declared,     \* ExecSpec: foreign keys accepted so far, by current table name
    last,         \* the latest operation, its inputs and its result
    nops          \* number of operations performed

vars == <<pg, issued, cache, cache_order, fifo_queue, dirty_pages, disk,
          capacity, policy, put_log, accessed, entered, inserted, fresh,
          tables, store, catalog, fk_cache, declared, last, nops>>

pageVars   == <<pg, issued>>
poolVars   == <<cache, cache_order, fifo_queue, dirty_pages, disk, capacity, policy>>
histVars   == <<put_log, accessed, entered>>
engineVars == <<inserted, fresh, tables>>
execVars   == <<store, catalog, fk_cache, declared>>

\* ------------------------------------------------------------------ bounds
MaxPageOps == 5     \* PageSpec: operations on the page
MaxSlots   == 3     \* Spec: slots in all pages of all tables
MaxCap     == 2     \* buffer capacities 1..MaxCap

\* --------------------------------------------------------------- constants
PAGE_SIZE   == 4096
HEADER_SIZE == 14
SLOT_SIZE   == 5

\* Python None as a table name argument, and as a column value
None == "None"
NULL == [kind |-> "null"]

\* ------------------------------------------------------------ generic help
Range(s) == {s[i] : i \in DOMAIN s}

RECURSIVE SumSeq(_)
SumSeq(s) == IF s = <<>> THEN 0 ELSE Head(s) + SumSeq(Tail(s))

SelectSeqBy(s, keep) == SelectSeq(s, LAMBDA x : x \in keep)

\* number of occurrences of each element of a sequence
BagOf(s) == [x \in Range(s) |-> Cardinality({i \in DOMAIN s : s[i] = x})]

\* a local variable: Body applied to the value computed once
Let(value, Body(_)) == Body(value)

\* ============================================================ SlottedPage
\* SlottedPage._init_empty_page
NewPage(page_id) ==
    [page_id    |-> page_id,
     data_start |-> PAGE_SIZE,
     slot_count |-> 0,
     flags      |-> 0,
     slots      |-> <<>>,
     cells      |-> {}]

\* SlottedPage.get_free_space
get_free_space(p) ==
    LET slots_end == HEADER_SIZE + p.slot_count * SLOT_SIZE
    IN  p.data_start - slots_end

\* self.data[a:a+n] = bytes : every cell the range overlaps is clobbered
WriteBytes(cells, off, bytes) ==
    {c \in cells : c.off + c.bytes.len <= off \/ off + bytes.len <= c.off}
        \cup {[off |-> off, bytes |-> bytes]}

\* bytes(self.data[off:off+length])
ReadBytes(cells, off, length) ==
    IF \E c \in cells : c.off = off /\ c.bytes.len = length
    THEN (CHOOSE c \in cells : c.off = off /\ c.bytes.len = length).bytes
    ELSE [len |-> length, body |-> [garbage |-> TRUE]]

\* SlottedPage._set_slot_info
set_slot_info(slots, slot_id, offset, length, is_deleted) ==
    LET e == [offset |-> offset, length |-> length, tomb |-> is_deleted]
    IN  IF slot_id + 1 <= Len(slots)
        THEN [slots EXCEPT ![slot_id + 1] = e]
        ELSE Append(slots, e)

\* the space check of SlottedPage.insert with the slot entry forgotten
insert_NoSlotRoom(p, record) ==
    IF record.len = 0 THEN [page |-> p, ret |-> -1, raised |-> "ValueError"]
    ELSE IF get_free_space(p) < record.len THEN [page |-> p, ret |-> -1, raised |-> ""]
    ELSE LET new_data_start == p.data_start - record.len
         IN  [page |-> [p EXCEPT
                  !.cells = WriteBytes(p.cells, new_data_start, record),
                  !.slots = set_slot_info(p.slots, p.slot_count, new_data_start,
                                          record.len, FALSE),
                  !.data_start = new_data_start,
                  !.slot_count = p.slot_count + 1],
              ret |-> p.slot_count, raised |-> ""]

\* SlottedPage.insert storing the new entry in slot 0 instead of a new slot
insert_ReuseSlot(p, record) ==
    IF record.len = 0 THEN [page |-> p, ret |-> -1, raised |-> "ValueError"]
    ELSE IF get_free_space(p) < record.len + SLOT_SIZE THEN [page |-> p, ret |-> -1, raised |-> ""]
    ELSE LET new_data_start == p.data_start - record.len
         IN  [page |-> [p EXCEPT
                  !.cells = WriteBytes(p.cells, new_data_start, record),
                  !.slots = set_slot_info(p.slots, 0, new_data_start,
                                          record.len, FALSE),
                  !.data_start = new_data_start,
                  !.slot_count = p.slot_count + 1],
              ret |-> 0, raised |-> ""]

\* SlottedPage.insert refusing a record that fills the free space exactly
insert_Strict(p, record) ==
    IF record.len = 0 THEN [page |-> p, ret |-> -1, raised |-> "ValueError"]
    ELSE IF get_free_space(p) <= record.len + SLOT_SIZE THEN [page |-> p, ret |-> -1, raised |-> ""]
    ELSE LET new_data_start == p.data_start - record.len
         IN  [page |-> [p EXCEPT
                  !.cells = WriteBytes(p.cells, new_data_start, record),
                  !.slots = set_slot_info(p.slots, p.slot_count, new_data_start,
                                          record.len, FALSE),
                  !.data_start = new_data_start,
                  !.slot_count = p.slot_count + 1],
              ret |-> p.slot_count, raised |-> ""]

\* SlottedPage.insert : ret is the new slot id or -1 (no room); raised names
\* the exception of a call that raises
insert(p, record) ==
    IF record.len = 0 THEN [page |-> p, ret |-> -1, raised |-> "ValueError"]
    ELSE IF get_free_space(p) < record.len + SLOT_SIZE THEN [page |-> p, ret |-> -1, raised |-> ""]
    ELSE LET new_data_start == p.data_start - record.len
         IN  [page |-> [p EXCEPT
                  !.cells = WriteBytes(p.cells, new_data_start, record),
                  !.slots = set_slot_info(p.slots, p.slot_count, new_data_start,
                                          record.len, FALSE),
                  !.data_start = new_data_start,
                  !.slot_count = p.slot_count + 1],
              ret |-> p.slot_count, raised |-> ""]

\* SlottedPage._get_slot_info : the IndexError guard
ValidSlot(p, slot_id) == slot_id >= 0 /\ slot_id < p.slot_count

\* SlottedPage.is_deleted
is_deleted(p, slot_id) ==
    IF ValidSlot(p, slot_id) THEN p.slots[slot_id + 1].tomb ELSE TRUE

\* SlottedPage.read : the bytes, or the exception raised
read(p, slot_id) ==
    IF ~ValidSlot(p, slot_id) THEN [raised |-> "IndexError"]
    ELSE IF p.slots[slot_id + 1].tomb THEN [raised |-> "ValueError"]
    ELSE ReadBytes(p.cells, p.slots[slot_id + 1].offset, p.slots[slot_id + 1].length)

\* SlottedPage.delete : ok is FALSE when _get_slot_info raises IndexError
delete(p, slot_id) ==
    IF ~ValidSlot(p, slot_id) THEN [page |-> p, ok |-> FALSE]
    ELSE LET s == p.slots[slot_id + 1]
         IN  [page |-> IF ~s.tomb
                       THEN [p EXCEPT !.slots = set_slot_info(p.slots, slot_id,
                                                    s.offset, s.length, TRUE)]
                       ELSE p,
              ok |-> TRUE]

\* SlottedPage.get_active_slots
get_active_slots(p) ==
    SelectSeq([i \in 1..p.slot_count |-> i - 1], LAMBDA s : ~is_deleted(p, s))

\* SlottedPage.get_all_records : the record bytes of the live slots, by slot id
get_all_records(p) ==
    LET act == get_active_slots(p)
    IN  [i \in 1..Len(act) |-> read(p, act[i])]

\* -------------------------------------------------------------- PageSpec
\* byte strings offered to the page: the empty one, a small one, two that
\* fill a page exactly together, one that is a byte too long for that, and
\* the largest one an empty page takes
PageRecords ==
    {[len |-> 0,    body |-> [tag |-> "e"]],
     [len |-> 7,    body |-> [tag |-> "a"]],
     [len |-> 2036, body |-> [tag |-> "b"]],
     [len |-> 2037, body |-> [tag |-> "c"]],
     [len |-> 4077, body |-> [tag |-> "d"]]}

PageSlotIds == -1..2

IdleLast == [op |-> "none"]

PageInit ==
    /\ pg = NewPage(1)
    /\ issued = {}
    /\ cache = <<>> /\ cache_order = <<>> /\ fifo_queue = <<>>
    /\ dirty_pages = {} /\ disk = <<>> /\ capacity = 1 /\ policy = "LRU"
    /\ put_log = <<>> /\ accessed = <<>> /\ entered = <<>>
    /\ inserted = <<>> /\ fresh = TRUE /\ tables = {}
    /\ store = <<>> /\ catalog = <<>> /\ fk_cache = <<>> /\ declared = {}
    /\ last = IdleLast /\ nops = 0

PageInsert ==
    \E record \in PageRecords :
        LET r == insert(pg, record)
        IN  /\ nops < MaxPageOps
            /\ pg' = r.page
            /\ issued' = IF r.ret >= 0 THEN issued \cup {r.ret} ELSE issued
            /\ last' = [op |-> "insert", record |-> record, ret |-> r.ret,
                        raised |-> r.raised]
            /\ nops' = nops + 1
            /\ UNCHANGED <<poolVars, histVars, engineVars, execVars>>

PageDelete ==
    \E slot_id \in PageSlotIds :
        LET r == delete(pg, slot_id)
        IN  /\ nops < MaxPageOps
            /\ pg' = r.page
            /\ last' = [op |-> "delete", slot_id |-> slot_id, ok |-> r.ok]
            /\ nops' = nops + 1
            /\ UNCHANGED <<issued, poolVars, histVars, engineVars, execVars>>

PageNext == PageInsert \/ PageDelete

PageSpec == PageInit /\ [][PageNext]_vars

\* ============================================================ FileManager
\* A pool/file state is the record
\*   [cache, cache_order, fifo_queue, dirty_pages, disk]
\* so that a handler made of several calls is the composition of operators.

\* FileManager.read_page succeeds: the file exists, the page lies inside it
\* and SlottedPage._load_from_bytes finds the expected page id
CanReadPage(dsk, table_name, page_id) ==
    /\ page_id # 0
    /\ table_name \in DOMAIN dsk
    /\ page_id \in 1..Len(dsk[table_name])
    /\ dsk[table_name][page_id].page_id = page_id

\* FileManager.read_page
read_page(dsk, table_name, page_id) == dsk[table_name][page_id]

\* FileManager.write_page : positional write at page.page_id * PAGE_SIZE
write_page(dsk, table_name, page) ==
    IF page.page_id = Len(dsk[table_name]) + 1
    THEN [dsk EXCEPT ![table_name] = Append(@, page)]
    ELSE [dsk EXCEPT ![table_name][page.page_id] = page]

\* FileManager.get_all_page_ids
get_all_page_ids(dsk, table_name) == [i \in 1..Len(dsk[table_name]) |-> i]

\* FileManager.allocate_new_page : [disk, page_id]
allocate_new_page(dsk, table_name) ==
    LET new_page_id == Len(dsk[table_name]) + 1
    IN  [disk    |-> write_page(dsk, table_name, NewPage(new_page_id)),
         page_id |-> new_page_id]

\* ============================================================= BufferPool
\* BufferPool._make_cache_key
make_cache_key(table_name, page_id) == <<table_name, page_id>>

RemoveKey(seq, key) == SelectSeq(seq, LAMBDA k : k # key)

\* dict.pop / del : the mapping without the key
DropKey(f, key) == [k \in DOMAIN f \ {key} |-> f[k]]

\* OrderedDict.move_to_end, and insertion of a new key at the end
MoveToEnd(seq, key) == Append(RemoveKey(seq, key), key)

\* EvictionEvent, without its timestamp
EvictionEvent(table_name, page_id, reason, was_dirty) ==
    [table_name |-> table_name, page_id |-> page_id, reason |-> reason,
     was_dirty |-> was_dirty]

\* BufferPool._evict_page dropping a dirty victim without writing it
evict_page_NoWrite(st) ==
    IF DOMAIN st.cache = {} THEN st
    ELSE LET evict_key == IF policy = "LRU" THEN Head(st.cache_order)
                          ELSE Head(st.fifo_queue)
         IN  [st EXCEPT
                !.cache = DropKey(st.cache, evict_key),
                !.cache_order = RemoveKey(st.cache_order, evict_key),
                !.fifo_queue = IF policy = "LRU" THEN @ ELSE Tail(@),
                !.dirty_pages = @ \ {evict_key},
                !.eviction_log =
                    Append(@, EvictionEvent(evict_key[1], evict_key[2],
                                            "capacity_full",
                                            evict_key \in st.dirty_pages))]

\* BufferPool._evict_page
evict_page(st) ==
    IF DOMAIN st.cache = {} THEN st
    ELSE LET evict_key  == IF policy = "LRU" THEN Head(st.cache_order)
                           ELSE Head(st.fifo_queue)
             evict_pg   == st.cache[evict_key]
             was_dirty  == evict_key \in st.dirty_pages
         IN  [st EXCEPT
                !.cache = DropKey(st.cache, evict_key),
                !.cache_order = RemoveKey(st.cache_order, evict_key),
                !.fifo_queue = IF policy = "LRU" THEN @ ELSE Tail(@),
                !.disk = IF was_dirty THEN write_page(@, evict_key[1], evict_pg)
                         ELSE @,
                !.dirty_pages = @ \ {evict_key},
                !.eviction_log =
                    Append(@, EvictionEvent(evict_key[1], evict_key[2],
                                            "capacity_full", was_dirty))]

\* BufferPool._add_to_cache that never makes room
add_to_cache_NoEvict(st, cache_key, page) ==
    IF policy = "LRU"
    THEN [st EXCEPT !.cache = (cache_key :> page) @@ @,
                    !.cache_order = MoveToEnd(@, cache_key)]
    ELSE [st EXCEPT !.cache = (cache_key :> page) @@ @,
                    !.cache_order = IF cache_key \in DOMAIN st.cache THEN @
                                    ELSE Append(@, cache_key),
                    !.fifo_queue = IF cache_key \in DOMAIN st.cache THEN @
                                   ELSE Append(@, cache_key)]

\* BufferPool._add_to_cache that puts a key stored again at the end of the
\* FIFO queue
add_to_cache_Requeue(st, cache_key, page) ==
    Let(IF Cardinality(DOMAIN st.cache) >= capacity
           /\ cache_key \notin DOMAIN st.cache
        THEN evict_page(st) ELSE st,
        LAMBDA s1 :
          IF policy = "LRU"
          THEN [s1 EXCEPT !.cache = (cache_key :> page) @@ @,
                          !.cache_order = MoveToEnd(@, cache_key)]
          ELSE [s1 EXCEPT !.cache = (cache_key :> page) @@ @,
                          !.cache_order = IF cache_key \in DOMAIN s1.cache THEN @
                                          ELSE Append(@, cache_key),
                          !.fifo_queue = MoveToEnd(@, cache_key)])

\* BufferPool._add_to_cache
add_to_cache(st, cache_key, page) ==
    Let(IF Cardinality(DOMAIN st.cache) >= capacity
           /\ cache_key \notin DOMAIN st.cache
        THEN evict_page(st) ELSE st,
        LAMBDA s1 :
          IF policy = "LRU"
          THEN [s1 EXCEPT !.cache = (cache_key :> page) @@ @,
                          !.cache_order = MoveToEnd(@, cache_key)]
          ELSE [s1 EXCEPT !.cache = (cache_key :> page) @@ @,
                          !.cache_order = IF cache_key \in DOMAIN s1.cache THEN @
                                          ELSE Append(@, cache_key),
                          !.fifo_queue = IF cache_key \in DOMAIN s1.cache THEN @
                                         ELSE Append(@, cache_key)])

\* BufferPool.get_page that leaves a hit key where it is in the LRU order
get_page_NoRefresh(st, table_name, page_id) ==
    LET cache_key == make_cache_key(table_name, page_id)
    IN  IF cache_key \in DOMAIN st.cache
        THEN [st |-> st, ok |-> TRUE]
        ELSE IF ~CanReadPage(st.disk, table_name, page_id)
        THEN [st |-> st, ok |-> FALSE]
        ELSE [st |-> add_to_cache(st, cache_key,
                                  read_page(st.disk, table_name, page_id)),
              ok |-> TRUE]

\* BufferPool.get_page : ok is FALSE when read_page raises; on success the
\* page returned is the cached object st.cache[key]
get_page(st, table_name, page_id) ==
    LET cache_key == make_cache_key(table_name, page_id)
    IN  IF cache_key \in DOMAIN st.cache
        THEN [st |-> IF policy = "LRU"
                     THEN [st EXCEPT !.cache_order = MoveToEnd(@, cache_key)]
                     ELSE st,
              ok |-> TRUE]
        ELSE IF ~CanReadPage(st.disk, table_name, page_id)
        THEN [st |-> st, ok |-> FALSE]
        ELSE [st |-> add_to_cache(st, cache_key,
                                  read_page(st.disk, table_name, page_id)),
              ok |-> TRUE]

\* BufferPool.put_page that never records the key as dirty
put_page_NoDirty(st, table_name, page, mark_dirty) ==
    add_to_cache(st, make_cache_key(table_name, page.page_id), page)

\* BufferPool.put_page
put_page(st, table_name, page, mark_dirty) ==
    LET cache_key == make_cache_key(table_name, page.page_id)
    IN  [add_to_cache(st, cache_key, page) EXCEPT
            !.dirty_pages = IF mark_dirty THEN @ \cup {cache_key} ELSE @]

\* the flush loop of BufferPool.flush_dirty_pages over the chosen keys
RECURSIVE FlushKeys(_, _)
FlushKeys(st, keys) ==
    IF keys = {} THEN st
    ELSE LET cache_key == CHOOSE k \in keys : TRUE
             s1 == IF cache_key \in DOMAIN st.cache
                   THEN [st EXCEPT
                           !.disk = write_page(@, cache_key[1], st.cache[cache_key]),
                           !.dirty_pages = @ \ {cache_key},
                           !.eviction_log =
                               Append(@, EvictionEvent(cache_key[1], cache_key[2],
                                                       "manual_flush", TRUE))]
                   ELSE st
         IN  FlushKeys(s1, keys \ {cache_key})

\* BufferPool.flush_dirty_pages : table_name = None flushes every table
flush_dirty_pages(st, table_name) ==
    FlushKeys(st, {k \in st.dirty_pages : table_name = None \/ k[1] = table_name})

\* the eviction loop of BufferPool.evict_table_pages
RECURSIVE EvictKeys(_, _)
EvictKeys(st, keys) ==
    IF keys = <<>> THEN st
    ELSE LET cache_key == Head(keys)
             page      == st.cache[cache_key]
             was_dirty == cache_key \in st.dirty_pages
             s1 == [st EXCEPT
                      !.cache = DropKey(@, cache_key),
                      !.cache_order = RemoveKey(@, cache_key),
                      !.disk = IF was_dirty THEN write_page(@, cache_key[1], page)
                               ELSE @,
                      !.dirty_pages = @ \ {cache_key},
                      !.fifo_queue = IF policy = "FIFO" THEN RemoveKey(@, cache_key)
                                     ELSE @,
                      !.eviction_log =
                          Append(@, EvictionEvent(cache_key[1], cache_key[2],
                                                  "table_eviction", was_dirty))]
         IN  EvictKeys(s1, Tail(keys))

\* BufferPool.evict_table_pages
evict_table_pages(st, table_name) ==
    EvictKeys(st, SelectSeq(st.cache_order, LAMBDA k : k[1] = table_name))

\* BufferPool.clear_cache
clear_cache(st) ==
    [flush_dirty_pages(st, None) EXCEPT
        !.cache = <<>>, !.cache_order = <<>>, !.fifo_queue = <<>>,
        !.dirty_pages = {}]

\* BufferPool.close
BufferPool_close(st) ==
    clear_cache(IF st.dirty_pages # {} THEN flush_dirty_pages(st, None) ELSE st)

\* the pool/file state held by the variables, and its assignment;
\* eviction_log holds the events appended since the operation began
CurrentState ==
    [cache |-> cache, cache_order |-> cache_order, fifo_queue |-> fifo_queue,
     dirty_pages |-> dirty_pages, disk |-> disk, eviction_log |-> <<>>]

SetState(st) ==
    /\ cache' = st.cache
    /\ cache_order' = st.cache_order
    /\ fifo_queue' = st.fifo_queue
    /\ dirty_pages' = st.dirty_pages
    /\ disk' = st.disk

\* --------------------------------------------------------------- PoolSpec
Policies == {"LRU", "FIFO"}

\* the table files of PoolSpec and their data pages
PoolDisk == [t1 |-> <<NewPage(1), NewPage(2)>>, t2 |-> <<NewPage(1)>>]

PoolKeys == {<<t, i>> : t \in DOMAIN PoolDisk, i \in 1..2} \ {<<"t2", 2>>}

PoolRecords == {[len |-> 7, body |-> [tag |-> "a"]]}

\* page contents a caller puts: the empty page or one holding one record
PoolPages(page_id) ==
    {NewPage(page_id)} \cup {insert(NewPage(page_id), r).page : r \in PoolRecords}

\* keys that leave the cache in a step while dirty
EvictedDirty(st0, st1) == {k \in st0.dirty_pages : k \notin DOMAIN st1.cache}

PoolInit ==
    /\ pg = NewPage(1) /\ issued = {}
    /\ cache = <<>> /\ cache_order = <<>> /\ fifo_queue = <<>>
    /\ dirty_pages = {}
    /\ disk = PoolDisk
    /\ capacity \in 1..MaxCap
    /\ policy \in Policies
    /\ put_log = <<>> /\ accessed = <<>> /\ entered = <<>>
    /\ inserted = <<>> /\ fresh = TRUE /\ tables = {}
    /\ store = <<>> /\ catalog = <<>> /\ fk_cache = <<>> /\ declared = {}
    /\ last = IdleLast /\ nops = 0

\* a key sequence without one key, and cut down to the keys the pool holds
Without(keys, key) == SelectSeq(keys, LAMBDA k : k # key)

StillCached(keys, st) == SelectSeq(keys, LAMBDA k : k \in DOMAIN st.cache)

PoolStep(op, key, st) ==
    /\ SetState(st)
    /\ last' = [op |-> op, key |-> key,
                miss |-> key \notin DOMAIN cache,
                full |-> Cardinality(DOMAIN cache) >= capacity,
                evicted |-> DOMAIN cache \ DOMAIN st.cache,
                least_recent  |-> IF accessed = <<>> THEN <<>> ELSE Head(accessed),
                first_entered |-> IF entered = <<>> THEN <<>> ELSE Head(entered),
                evicted_dirty |-> EvictedDirty(CurrentState, st),
                events |-> st.eviction_log]
    /\ accessed' = StillCached(IF op \in {"get_page", "put_page"}
                               THEN Append(Without(accessed, key), key)
                               ELSE accessed, st)
    /\ entered' = StillCached(IF op \in {"get_page", "put_page"}
                                 /\ key \notin DOMAIN cache
                              THEN Append(entered, key)
                              ELSE entered, st)
    /\ UNCHANGED <<pageVars, capacity, policy, engineVars, nops, execVars>>

PoolGetPage ==
    \E key \in PoolKeys :
        /\ PoolStep("get_page", key, get_page(CurrentState, key[1], key[2]).st)
        /\ UNCHANGED put_log

PoolPutPage ==
    \E key \in PoolKeys : \E page \in PoolPages(key[2]) : \E mark_dirty \in BOOLEAN :
        /\ PoolStep("put_page", key, put_page(CurrentState, key[1], page, mark_dirty))
        /\ put_log' = (key :> [page |-> page,
                               dirty |-> mark_dirty \/ key \in dirty_pages])
                          @@ put_log

PoolFlush ==
    \E table_name \in DOMAIN PoolDisk \cup {None} :
        /\ PoolStep("flush_dirty_pages", <<>>,
                    flush_dirty_pages(CurrentState, table_name))
        /\ UNCHANGED put_log

PoolEvictTable ==
    \E table_name \in DOMAIN PoolDisk :
        /\ PoolStep("evict_table_pages", <<>>,
                    evict_table_pages(CurrentState, table_name))
        /\ UNCHANGED put_log

PoolClear ==
    /\ PoolStep("clear_cache", <<>>, clear_cache(CurrentState))
    /\ UNCHANGED put_log

PoolClose ==
    /\ PoolStep("close", <<>>, BufferPool_close(CurrentState))
    /\ UNCHANGED put_log

PoolNext ==
    \/ PoolGetPage
    \/ PoolPutPage
    \/ PoolFlush
    \/ PoolEvictTable
    \/ PoolClear
    \/ PoolClose

PoolSpec == PoolInit /\ [][PoolNext]_vars

\* ============================================================ RecordCodec
\* Values: NULL, a 32-bit integer, or a string, which is modelled by the
\* length of its UTF-8 encoding, and by the integer it spells when it is the
\* decimal spelling of one.
IntVal(i) == [kind |-> "int", v |-> i]
StrVal(n) == [kind |-> "str", len |-> n]
NumStrVal(i) == [kind |-> "str", len |-> IF i < 10 THEN 1 ELSE 2, int |-> i]

\* the schema of the tables of Spec: (id INT, name VARCHAR(3000))
Columns ==
    <<[name |-> "id",   type |-> "INT",     max_length |-> 0],
      [name |-> "name", type |-> "VARCHAR", max_length |-> 3000]>>

\* RecordEncoder.__init__ : null_bitmap_size + offset_table_size
header_size == ((Len(Columns) + 7) \div 8) + Len(Columns) * 2

\* RecordEncoder._encode_value : int(value) for what is not an int in an
\* INT column, str(value) for what is not a str in a VARCHAR column
encode_value(col, value) ==
    IF col.type = "INT"
    THEN IF value.kind = "int"
         THEN [len |-> 4, body |-> [i32 |-> value.v], raised |-> ""]
         ELSE IF "int" \in DOMAIN value
         THEN [len |-> 4, body |-> [i32 |-> value.int], raised |-> ""]
         ELSE [len |-> 0, body |-> [none |-> TRUE], raised |-> "ValueError"]
    ELSE LET encoded == IF value.kind = "str" THEN value ELSE NumStrVal(value.v)
         IN  IF encoded.len > col.max_length
             THEN [len |-> 0, body |-> [none |-> TRUE], raised |-> "ValueError"]
             ELSE [len |-> 2 + encoded.len,
                   body |-> IF "int" \in DOMAIN encoded
                            THEN [strlen |-> encoded.len, int |-> encoded.int]
                            ELSE [strlen |-> encoded.len],
                   raised |-> ""]

\* the column loop of RecordEncoder.encode from column i on
RECURSIVE EncodeFrom(_, _, _)
EncodeFrom(row_data, i, acc) ==
    IF i > Len(Columns) THEN acc
    ELSE LET col   == Columns[i]
             value == row_data[col.name]
         IN  IF value = NULL
             THEN EncodeFrom(row_data, i + 1,
                    [acc EXCEPT !.null_bitmap = @ \cup {i - 1},
                                !.offsets = Append(@, 0)])
             ELSE LET e == encode_value(col, value)
                  IN  IF e.raised # "" THEN [acc EXCEPT !.raised = e.raised]
                      ELSE EncodeFrom(row_data, i + 1,
                             [acc EXCEPT
                                !.offsets = Append(@, acc.current_offset),
                                !.data_parts = Append(@, [len |-> e.len, body |-> e.body]),
                                !.current_offset = @ + e.len])

\* RecordEncoder.encode / TableSchema.encode_row : [raised, bytes]
encode_row(row_data) ==
    LET acc == EncodeFrom(row_data, 1,
                 [null_bitmap |-> {}, offsets |-> <<>>, data_parts |-> <<>>,
                  current_offset |-> header_size, raised |-> ""])
    IN  [raised |-> acc.raised,
         bytes  |-> [len  |-> acc.current_offset,
                     body |-> [null_bitmap |-> acc.null_bitmap,
                               offsets     |-> acc.offsets,
                               data_parts  |-> acc.data_parts]]]

\* the bytes found at an offset of the data region: the index of the part
\* that starts there, 0 when none does
PartAt(data_parts, offset) ==
    LET start(k) == header_size
                    + SumSeq([j \in 1..(k - 1) |-> data_parts[j].len])
        hits == {k \in 1..Len(data_parts) : start(k) = offset}
    IN  IF hits = {} THEN 0 ELSE CHOOSE k \in hits : TRUE

\* RecordDecoder._decode_value
decode_value(col, body, offset) ==
    LET k == PartAt(body.data_parts, offset)
        part == body.data_parts[k]
    IN  IF k = 0 THEN [raised |-> "ValueError"]
        ELSE IF col.type = "INT"
        THEN (IF "i32" \in DOMAIN part.body THEN IntVal(part.body.i32)
              ELSE [raised |-> "garbage"])
        ELSE (IF "int" \in DOMAIN part.body THEN NumStrVal(part.body.int)
              ELSE IF "strlen" \in DOMAIN part.body THEN StrVal(part.body.strlen)
              ELSE [raised |-> "garbage"])

\* RecordDecoder.decode / TableSchema.decode_row : [raised, row]
decode_row(record_bytes) ==
    IF "garbage" \in DOMAIN record_bytes.body \/ record_bytes.len < header_size
    THEN [raised |-> "ValueError", row |-> <<>>]
    ELSE LET body == record_bytes.body
             val(i) == IF (i - 1) \in body.null_bitmap THEN NULL
                       ELSE IF body.offsets[i] = 0 THEN [raised |-> "ValueError"]
                       ELSE decode_value(Columns[i], body, body.offsets[i])
             bad == \E i \in 1..Len(Columns) : "raised" \in DOMAIN val(i)
         IN  IF bad THEN [raised |-> "ValueError", row |-> <<>>]
             ELSE [raised |-> "",
                   row |-> [n \in {Columns[i].name : i \in 1..Len(Columns)} |->
                              val(CHOOSE i \in 1..Len(Columns) : Columns[i].name = n)]]


\* ========================================================== StorageEngine
\* row predicates and row transforms given to delete_where / update_where:
\* "column = value", and "set column to value"
EvalPredicate(predicate, row_data) == row_data[predicate.col] = predicate.val

ApplyUpdate(update_func, row_data) ==
    [row_data EXCEPT ![update_func.col] = update_func.val]

\* the page loop of StorageEngine.insert_row : [st, ok]
RECURSIVE InsertIntoPages(_, _, _, _)
InsertIntoPages(st, table_name, record_bytes, page_ids) ==
    IF page_ids = <<>> THEN [st |-> st, ok |-> FALSE]
    ELSE LET page_id == Head(page_ids)
             key == make_cache_key(table_name, page_id)
         IN  Let(get_page(st, table_name, page_id), LAMBDA g :
               IF ~g.ok
               THEN InsertIntoPages(g.st, table_name, record_bytes, Tail(page_ids))
               ELSE Let(insert(g.st.cache[key], record_bytes), LAMBDA r :
                      IF r.ret # -1
                      THEN [st |-> put_page([g.st EXCEPT !.cache[key] = r.page],
                                            table_name, r.page, TRUE),
                            ok |-> TRUE]
                      ELSE InsertIntoPages(g.st, table_name, record_bytes,
                                           Tail(page_ids))))

\* the new-page branch of StorageEngine.insert_row, taken when no existing
\* page had room : [st, ok, raised]
InsertIntoNewPage(st, table_name, record_bytes) ==
    Let(allocate_new_page(st.disk, table_name), LAMBDA a :
    Let(get_page([st EXCEPT !.disk = a.disk], table_name, a.page_id), LAMBDA g :
    Let(insert(g.st.cache[make_cache_key(table_name, a.page_id)], record_bytes),
        LAMBDA r :
          IF r.ret # -1
          THEN [st |-> put_page([g.st EXCEPT
                                   !.cache[make_cache_key(table_name, a.page_id)] = r.page],
                                table_name, r.page, TRUE),
                ok |-> TRUE, raised |-> ""]
          ELSE [st |-> g.st, ok |-> FALSE, raised |-> ""])))

\* StorageEngine.insert_row : [st, ok, raised]
insert_row(st, table_name, row_data) ==
    IF table_name \notin DOMAIN st.disk
    THEN [st |-> st, ok |-> FALSE, raised |-> "ValueError"]
    ELSE Let(encode_row(row_data), LAMBDA e :
           IF e.raised # ""
           THEN [st |-> st, ok |-> FALSE, raised |-> "ValueError"]
           ELSE Let(InsertIntoPages(st, table_name, e.bytes,
                                    get_all_page_ids(st.disk, table_name)),
                    LAMBDA tried :
                      IF tried.ok
                      THEN [st |-> tried.st, ok |-> TRUE, raised |-> ""]
                      ELSE InsertIntoNewPage(tried.st, table_name, e.bytes)))

\* the rows decoded from the live records of a page, undecodable ones skipped
PageRows(page) ==
    LET recs == get_all_records(page)
        dec  == [i \in 1..Len(recs) |-> decode_row(recs[i])]
        good == SelectSeq(dec, LAMBDA d : d.raised = "")
    IN  [i \in 1..Len(good) |-> good[i].row]

\* the page loop of StorageEngine.seq_scan : [st, rows]
RECURSIVE ScanPages(_, _, _, _)
ScanPages(st, table_name, page_ids, rows) ==
    IF page_ids = <<>> THEN [st |-> st, rows |-> rows]
    ELSE LET page_id == Head(page_ids)
         IN  Let(get_page(st, table_name, page_id), LAMBDA g :
               IF ~g.ok THEN ScanPages(g.st, table_name, Tail(page_ids), rows)
               ELSE ScanPages(g.st, table_name, Tail(page_ids),
                      rows \o PageRows(g.st.cache[make_cache_key(table_name, page_id)])))

\* seq_scan that walks the data pages from the last one to the first
seq_scan_LastPageFirst(st, table_name) ==
    LET ids == get_all_page_ids(st.disk, table_name)
    IN  ScanPages(st, table_name,
                  [i \in 1..Len(ids) |-> ids[Len(ids) + 1 - i]], <<>>)

\* StorageEngine.seq_scan, run to its end : [st, rows]
seq_scan(st, table_name) ==
    ScanPages(st, table_name, get_all_page_ids(st.disk, table_name), <<>>)

\* the slot loop of StorageEngine.delete_where on one page : [page, count]
RECURSIVE DeleteSlots(_, _, _, _)
DeleteSlots(page, slot_id, predicate, count) ==
    IF slot_id >= page.slot_count THEN [page |-> page, count |-> count]
    ELSE IF is_deleted(page, slot_id)
    THEN DeleteSlots(page, slot_id + 1, predicate, count)
    ELSE Let(decode_row(read(page, slot_id)), LAMBDA d :
           IF d.raised = "" /\ EvalPredicate(predicate, d.row)
           THEN DeleteSlots(delete(page, slot_id).page, slot_id + 1,
                            predicate, count + 1)
           ELSE DeleteSlots(page, slot_id + 1, predicate, count))

\* the page loop of StorageEngine.delete_where : [st, count]
RECURSIVE DeletePages(_, _, _, _, _)
DeletePages(st, table_name, page_ids, predicate, deleted_count) ==
    IF page_ids = <<>> THEN [st |-> st, count |-> deleted_count]
    ELSE LET page_id == Head(page_ids)
             key == make_cache_key(table_name, page_id)
         IN  Let(get_page(st, table_name, page_id), LAMBDA g :
               IF ~g.ok
               THEN DeletePages(g.st, table_name, Tail(page_ids), predicate,
                                deleted_count)
               ELSE Let(DeleteSlots(g.st.cache[key], 0, predicate, 0), LAMBDA r :
                      DeletePages(IF r.count > 0
                                  THEN put_page([g.st EXCEPT !.cache[key] = r.page],
                                                table_name, r.page, TRUE)
                                  ELSE [g.st EXCEPT !.cache[key] = r.page],
                                  table_name, Tail(page_ids), predicate,
                                  deleted_count + r.count)))

\* StorageEngine.delete_where : [st, count]
delete_where(st, table_name, predicate) ==
    DeletePages(st, table_name, get_all_page_ids(st.disk, table_name),
                predicate, 0)

\* the slot loop of StorageEngine.update_where on one page, over the slots
\* the page had when the loop started : [page, count]
RECURSIVE UpdateSlots(_, _, _, _, _, _)
UpdateSlots(page, slot_id, slot_end, predicate, update_func, count) ==
    IF slot_id >= slot_end THEN [page |-> page, count |-> count]
    ELSE IF is_deleted(page, slot_id)
    THEN UpdateSlots(page, slot_id + 1, slot_end, predicate, update_func, count)
    ELSE Let(decode_row(read(page, slot_id)), LAMBDA d :
           IF d.raised # "" \/ ~EvalPredicate(predicate, d.row)
           THEN UpdateSlots(page, slot_id + 1, slot_end, predicate,
                            update_func, count)
           ELSE Let(encode_row(ApplyUpdate(update_func, d.row)), LAMBDA e :
                  IF e.raised # ""
                  THEN UpdateSlots(page, slot_id + 1, slot_end, predicate,
                                   update_func, count)
                  ELSE Let(insert(delete(page, slot_id).page, e.bytes), LAMBDA r :
                         UpdateSlots(r.page, slot_id + 1, slot_end, predicate,
                                     update_func,
                                     IF r.ret # -1 THEN count + 1 ELSE count))))

\* the page loop of StorageEngine.update_where : [st, count]
RECURSIVE UpdatePages(_, _, _, _, _, _)
UpdatePages(st, table_name, page_ids, predicate, update_func, updated_count) ==
    IF page_ids = <<>> THEN [st |-> st, count |-> updated_count]
    ELSE LET page_id == Head(page_ids)
             key == make_cache_key(table_name, page_id)
         IN  Let(get_page(st, table_name, page_id), LAMBDA g :
               IF ~g.ok
               THEN UpdatePages(g.st, table_name, Tail(page_ids), predicate,
                                update_func, updated_count)
               ELSE Let(UpdateSlots(g.st.cache[key], 0, g.st.cache[key].slot_count,
                                    predicate, update_func, 0),
                        LAMBDA r :
                          UpdatePages(IF r.count > 0
                                      THEN put_page([g.st EXCEPT !.cache[key] = r.page],
                                                    table_name, r.page, TRUE)
                                      ELSE [g.st EXCEPT !.cache[key] = r.page],
                                      table_name, Tail(page_ids), predicate,
                                      update_func, updated_count + r.count)))

\* StorageEngine.update_where : [st, count]
update_where(st, table_name, predicate, update_func) ==
    UpdatePages(st, table_name, get_all_page_ids(st.disk, table_name),
                predicate, update_func, 0)

\* FileManager.create_table_file : a file that holds the header page only
create_table_file(dsk, table_name) ==
    IF table_name \in DOMAIN dsk
    THEN [disk |-> dsk, raised |-> "FileExistsError"]
    ELSE [disk |-> (table_name :> <<>>) @@ dsk, raised |-> ""]

\* FileManager.delete_table_file : [disk, ok]
delete_table_file(dsk, table_name) ==
    IF table_name \notin DOMAIN dsk
    THEN [disk |-> dsk, ok |-> FALSE]
    ELSE [disk |-> DropKey(dsk, table_name), ok |-> TRUE]

\* StorageEngine.create_table : [st, tables, raised]
create_table(st, tabs, table_name) ==
    IF table_name \in tabs
    THEN [st |-> st, tables |-> tabs, raised |-> "ValueError"]
    ELSE Let(create_table_file(st.disk, table_name), LAMBDA f :
           IF f.raised # ""
           THEN [st |-> st, tables |-> tabs, raised |-> f.raised]
           ELSE [st |-> [st EXCEPT !.disk = f.disk],
                 tables |-> tabs \cup {table_name}, raised |-> ""])

\* StorageEngine.drop_table that leaves the pages of the table in the pool
drop_table_NoEvict(st, tabs, table_name) ==
    IF table_name \notin tabs
    THEN [st |-> st, tables |-> tabs, ok |-> FALSE]
    ELSE Let(delete_table_file(st.disk, table_name), LAMBDA f :
           [st |-> [st EXCEPT !.disk = f.disk],
            tables |-> IF f.ok THEN tabs \ {table_name} ELSE tabs,
            ok |-> f.ok])

\* StorageEngine.drop_table : [st, tables, ok]
drop_table(st, tabs, table_name) ==
    IF table_name \notin tabs
    THEN [st |-> st, tables |-> tabs, ok |-> FALSE]
    ELSE Let(evict_table_pages(st, table_name), LAMBDA e :
         Let(delete_table_file(e.disk, table_name), LAMBDA f :
           [st |-> [e EXCEPT !.disk = f.disk],
            tables |-> IF f.ok THEN tabs \ {table_name} ELSE tabs,
            ok |-> f.ok]))

\* StorageEngine.flush_all
flush_all(st) == flush_dirty_pages(st, None)

\* StorageEngine.close
StorageEngine_close(st) == BufferPool_close(flush_all(st))

\* ------------------------------------------------------------------- Spec
\* Two tables created by create_table share the pool: "t", on which every
\* row operation is run, and "u", which is only inserted into and scanned.
EngineTables == {"t", "u"}

Big   == StrVal(2500)
Small == StrVal(100)

EngineRows(table_name) ==
    IF table_name = "t"
    THEN {[id |-> IntVal(1), name |-> Big],
          [id |-> IntVal(2), name |-> Small]}
    ELSE {[id |-> IntVal(9), name |-> NULL]}

Predicates  == {[col |-> "id", val |-> IntVal(i)] : i \in 1..2}
UpdateFuncs == {[col |-> "name", val |-> v] : v \in {Big, Small}}

\* the page of a key as the engine sees it: the cached object, else the file
ViewPage(st, table_name, page_id) ==
    IF <<table_name, page_id>> \in DOMAIN st.cache
    THEN st.cache[<<table_name, page_id>>]
    ELSE st.disk[table_name][page_id]

\* number of slots in all pages of all tables
TotalSlots(st) ==
    LET keys == {<<tb, i>> : tb \in DOMAIN st.disk, i \in 1..MaxSlots}
        used == {k \in keys : k[2] <= Len(st.disk[k[1]])}
        RECURSIVE Sum(_)
        Sum(ks) == IF ks = {} THEN 0
                   ELSE LET k == CHOOSE x \in ks : TRUE
                        IN  ViewPage(st, k[1], k[2]).slot_count + Sum(ks \ {k})
    IN  Sum(used)

\* list(seq_scan(table)) in the current state
ScanNow(table_name) == seq_scan(CurrentState, table_name).rows

Init ==
    /\ pg = NewPage(1) /\ issued = {}
    /\ cache = <<>> /\ cache_order = <<>> /\ fifo_queue = <<>>
    /\ dirty_pages = {}
    /\ disk = [tb \in EngineTables |-> <<>>]
    /\ capacity \in 1..MaxCap
    /\ policy \in Policies
    /\ put_log = <<>> /\ accessed = <<>> /\ entered = <<>>
    /\ inserted = <<>> /\ fresh = TRUE /\ tables = EngineTables
    /\ store = <<>> /\ catalog = <<>> /\ fk_cache = <<>> /\ declared = {}
    /\ last = IdleLast /\ nops = 0

EngineInsert ==
    \E table_name \in EngineTables : \E row_data \in EngineRows(table_name) :
        \E r \in {insert_row(CurrentState, table_name, row_data)} :
            /\ TotalSlots(CurrentState) < MaxSlots
            /\ SetState(r.st)
            /\ last' = [op |-> "insert_row", table |-> table_name, ok |-> r.ok]
            /\ inserted' = IF fresh /\ r.ok /\ table_name = "t"
                           THEN Append(inserted, row_data) ELSE inserted
            /\ UNCHANGED <<pageVars, capacity, policy, histVars, fresh, tables, nops, execVars>>

\* seq_scan, delete_where and update_where raise ValueError for a table that
\* is not in the metadata and change nothing
EngineScan ==
    \E table_name \in tables :
        /\ SetState(seq_scan(CurrentState, table_name).st)
        /\ last' = [op |-> "seq_scan", table |-> table_name]
        /\ UNCHANGED <<pageVars, capacity, policy, histVars, engineVars, nops, execVars>>

EngineDelete ==
    /\ "t" \in tables
    /\ \E predicate \in Predicates :
        \E r \in {delete_where(CurrentState, "t", predicate)} :
            /\ SetState(r.st)
            /\ last' = [op |-> "delete_where", before |-> ScanNow("t"),
                        predicate |-> predicate, count |-> r.count]
            /\ fresh' = FALSE
            /\ inserted' = <<>>
            /\ UNCHANGED <<pageVars, capacity, policy, histVars, tables, nops, execVars>>

EngineUpdate ==
    /\ "t" \in tables
    /\ \E predicate \in Predicates : \E update_func \in UpdateFuncs :
        \E r \in {update_where(CurrentState, "t", predicate, update_func)} :
            /\ TotalSlots(r.st) <= MaxSlots
            /\ SetState(r.st)
            /\ last' = [op |-> "update_where", before |-> ScanNow("t"),
                        predicate |-> predicate, update_func |-> update_func,
                        count |-> r.count]
            /\ fresh' = FALSE
            /\ inserted' = <<>>
            /\ UNCHANGED <<pageVars, capacity, policy, histVars, tables, nops, execVars>>

\* StorageEngine.close, then a new StorageEngine on the same data directory
EngineReopen ==
    /\ SetState(StorageEngine_close(CurrentState))
    /\ last' = [op |-> "reopen",
                before |-> [tb \in tables |-> ScanNow(tb)]]
    /\ UNCHANGED <<pageVars, capacity, policy, histVars, engineVars, nops, execVars>>

EngineDropTable ==
    \E table_name \in EngineTables :
        \E r \in {drop_table(CurrentState, tables, table_name)} :
            /\ SetState(r.st)
            /\ tables' = r.tables
            /\ last' = [op |-> "drop_table", table |-> table_name, ok |-> r.ok,
                        before |-> IF table_name \in tables
                                   THEN ScanNow(table_name) ELSE <<>>,
                        had_dirty |-> \E k \in dirty_pages : k[1] = table_name]
            /\ fresh' = IF r.ok /\ table_name = "t" THEN FALSE ELSE fresh
            /\ inserted' = IF r.ok /\ table_name = "t" THEN <<>> ELSE inserted
            /\ UNCHANGED <<pageVars, capacity, policy, histVars, nops, execVars>>

\* create_table with the schema of Columns; the table "t" it creates is fresh
EngineCreateTable ==
    \E table_name \in EngineTables :
        \E r \in {create_table(CurrentState, tables, table_name)} :
            /\ SetState(r.st)
            /\ tables' = r.tables
            /\ last' = [op |-> "create_table", table |-> table_name,
                        raised |-> r.raised,
                        before |-> IF last.op = "drop_table" /\ last.table = table_name
                                   THEN last.before ELSE <<>>,
                        had_dirty |-> last.op = "drop_table"
                                      /\ last.table = table_name /\ last.had_dirty]
            /\ fresh' = IF r.raised = "" /\ table_name = "t" THEN TRUE ELSE fresh
            /\ inserted' = IF r.raised = "" /\ table_name = "t" THEN <<>> ELSE inserted
            /\ UNCHANGED <<pageVars, capacity, policy, histVars, nops, execVars>>

Next ==
    \/ EngineInsert
    \/ EngineScan
    \/ EngineDelete
    \/ EngineUpdate
    \/ EngineReopen
    \/ EngineDropTable
    \/ EngineCreateTable

Spec == Init /\ [][Next]_vars

\* ================================================ executor: storage engine
\* The operators reach the StorageEngine through create_table, drop_table,
\* insert_row, seq_scan, delete_where and update_where. In ExecSpec the
\* buffer pool holds every page of every table (its default capacity is 64
\* pages), so a table is its schema and its data pages:
\*   store[table_name] = [columns, pages]

\* dict.get : the value of a key, None when the key is absent
Field(row, name) == IF name \in DOMAIN row THEN row[name] ELSE NULL

\* TableSchema.encode_row for the columns of a table : [raised, bytes]; the
\* body holds the value stored for each column
schema_encode_row(columns, row_data) ==
    LET n == Len(columns)
        value(i) == Field(row_data, columns[i].name)
        bad(i) == /\ value(i) # NULL
                  /\ IF columns[i].type = "INT" THEN value(i).kind # "int"
                     ELSE value(i).kind = "str"
                          /\ value(i).len > columns[i].max_length
        stored(i) == IF value(i) # NULL /\ columns[i].type = "VARCHAR"
                        /\ value(i).kind = "int"
                     THEN StrVal(1) ELSE value(i)
        size(i) == IF value(i) = NULL THEN 0
                   ELSE IF columns[i].type = "INT" THEN 4
                   ELSE 2 + stored(i).len
    IN  IF \E i \in 1..n : bad(i)
        THEN [raised |-> "ValueError", bytes |-> [len |-> 0, body |-> <<>>]]
        ELSE [raised |-> "",
              bytes |->
                [len  |-> ((n + 7) \div 8) + 2 * n
                          + SumSeq([i \in 1..n |-> size(i)]),
                 body |-> [row |-> [c \in {columns[i].name : i \in 1..n} |->
                             stored(CHOOSE i \in 1..n : columns[i].name = c)]]]]

\* StorageEngine.create_table : [store, raised]
StoreCreateTable(st, table_name, columns) ==
    IF table_name \in DOMAIN st
    THEN [store |-> st, raised |-> "ValueError"]
    ELSE LET column_defs == [i \in 1..Len(columns) |->
                                [name |-> columns[i].name,
                                 type |-> columns[i].type,
                                 max_length |-> columns[i].max_length]]
         IN  [store |-> (table_name :> [columns |-> column_defs,
                                        pages |-> <<>>]) @@ st,
              raised |-> ""]

\* StorageEngine.drop_table
StoreDropTable(st, table_name) == DropKey(st, table_name)

\* the page loop of StorageEngine.insert_row, then its new-page branch; the
\* page allocated for a record that fits nowhere stays in the file : [pages, ok]
RECURSIVE InsertFirstFit(_, _, _)
InsertFirstFit(pages, i, record) ==
    IF i > Len(pages)
    THEN Let(insert(NewPage(i), record), LAMBDA r :
           [pages |-> Append(pages, r.page), ok |-> r.ret # -1])
    ELSE Let(insert(pages[i], record), LAMBDA r :
           IF r.ret # -1
           THEN [pages |-> [pages EXCEPT ![i] = r.page], ok |-> TRUE]
           ELSE InsertFirstFit(pages, i + 1, record))

\* StorageEngine.insert_row : [store, ok, raised]
StoreInsertRow(st, table_name, row_data) ==
    IF table_name \notin DOMAIN st
    THEN [store |-> st, ok |-> FALSE, raised |-> "ValueError"]
    ELSE Let(schema_encode_row(st[table_name].columns, row_data), LAMBDA e :
           IF e.raised # ""
           THEN [store |-> st, ok |-> FALSE, raised |-> "ValueError"]
           ELSE Let(InsertFirstFit(st[table_name].pages, 1, e.bytes), LAMBDA r :
                  [store |-> [st EXCEPT ![table_name].pages = r.pages],
                   ok |-> r.ok, raised |-> ""]))

\* the rows decoded from the live records of the pages, page by page
RECURSIVE PagesRows(_)
PagesRows(pages) ==
    IF pages = <<>> THEN <<>>
    ELSE LET recs == get_all_records(Head(pages))
         IN  [i \in 1..Len(recs) |-> recs[i].body.row] \o PagesRows(Tail(pages))

\* list(StorageEngine.seq_scan(table_name))
StoreSeqScan(st, table_name) == PagesRows(st[table_name].pages)

\* a WHERE condition "column = value", or no condition at all
NoCond == [col |-> "*", val |-> NULL]

Selected(cond, row) == cond.col = "*" \/ Field(row, cond.col) = cond.val

\* the slot loop of StorageEngine.delete_where on one page : [page, count]
RECURSIVE DeleteSelected(_, _, _, _)
DeleteSelected(page, slot_id, cond, count) ==
    IF slot_id >= page.slot_count THEN [page |-> page, count |-> count]
    ELSE IF is_deleted(page, slot_id)
            \/ ~Selected(cond, read(page, slot_id).body.row)
    THEN DeleteSelected(page, slot_id + 1, cond, count)
    ELSE DeleteSelected(delete(page, slot_id).page, slot_id + 1, cond, count + 1)

\* StorageEngine.delete_where : [store, count]
StoreDeleteWhere(st, table_name, cond) ==
    LET pages == st[table_name].pages
        done  == [i \in 1..Len(pages) |-> DeleteSelected(pages[i], 0, cond, 0)]
    IN  [store |-> [st EXCEPT ![table_name].pages =
                       [i \in 1..Len(pages) |-> done[i].page]],
         count |-> SumSeq([i \in 1..Len(pages) |-> done[i].count])]

\* ================================================ executor: CatalogManager
\* catalog = [next_table_id, table_cache, column_cache, sys_tables]:
\* table_cache maps a table name to [table_id, row_count], column_cache a
\* table id to its column list, and sys_tables is the set of live rows of
\* the system table. sys_columns mirrors column_cache; sys_indexes is empty.
NewCatalog ==
    [next_table_id |-> 1, table_cache |-> <<>>, column_cache |-> <<>>,
     sys_tables |-> {}]

\* CatalogManager.register_table : [catalog, raised]
register_table(cat, table_name, columns) ==
    IF table_name \in DOMAIN cat.table_cache
    THEN [catalog |-> cat, raised |-> "ValueError"]
    ELSE LET table_id == cat.next_table_id
         IN  [catalog |->
                [next_table_id |-> table_id + 1,
                 sys_tables |-> cat.sys_tables \cup
                    {[table_id |-> table_id, table_name |-> table_name,
                      row_count |-> 0]},
                 table_cache |-> (table_name :> [table_id |-> table_id,
                                                 row_count |-> 0])
                                    @@ cat.table_cache,
                 column_cache |-> (table_id :> columns) @@ cat.column_cache],
              raised |-> ""]

\* CatalogManager.unregister_table
unregister_table(cat, table_name) ==
    IF table_name \notin DOMAIN cat.table_cache THEN cat
    ELSE LET table_id == cat.table_cache[table_name].table_id
         IN  [cat EXCEPT
                !.sys_tables = {r \in @ : r.table_id # table_id},
                !.table_cache = DropKey(@, table_name),
                !.column_cache = DropKey(@, table_id)]

\* CatalogManager.update_table_row_count
update_table_row_count(cat, table_name, delta) ==
    IF table_name \notin DOMAIN cat.table_cache THEN cat
    ELSE LET table_meta == cat.table_cache[table_name]
             row_count  == table_meta.row_count + delta
         IN  [cat EXCEPT
                !.table_cache[table_name].row_count = row_count,
                !.sys_tables = {r \in @ : r.table_id # table_meta.table_id}
                    \cup {[table_id |-> table_meta.table_id,
                           table_name |-> table_name,
                           row_count |-> row_count]}]

\* CatalogManager.get_table_columns
get_table_columns(cat, table_name) ==
    IF table_name \notin DOMAIN cat.table_cache THEN <<>>
    ELSE LET table_id == cat.table_cache[table_name].table_id
         IN  IF table_id \in DOMAIN cat.column_cache
             THEN cat.column_cache[table_id] ELSE <<>>

\* CatalogManager.column_exists
column_exists(cat, table_name, column_name) ==
    \E col \in Range(get_table_columns(cat, table_name)) : col.name = column_name

\* ========================== executor: ConstraintManager, ConstraintValidator
\* A database is db = [store, catalog, fk_cache]; fk_cache is the sequence of
\* the foreign keys in fk_id order, which is also the content of
\* sys_foreign_keys.

\* ConstraintManager.add_foreign_key : [fk_cache, raised]
add_foreign_key(db, table_name, column_name, ref_table_name, ref_column_name) ==
    IF \/ table_name \notin DOMAIN db.catalog.table_cache
       \/ ref_table_name \notin DOMAIN db.catalog.table_cache
       \/ ~column_exists(db.catalog, table_name, column_name)
       \/ ~column_exists(db.catalog, ref_table_name, ref_column_name)
    THEN [fk_cache |-> db.fk_cache, raised |-> "ValueError"]
    ELSE [fk_cache |-> Append(db.fk_cache,
            [fk_id |-> Len(db.fk_cache) + 1,
             table_id |-> db.catalog.table_cache[table_name].table_id,
             column_name |-> column_name,
             ref_table_id |-> db.catalog.table_cache[ref_table_name].table_id,
             ref_column_name |-> ref_column_name]),
          raised |-> ""]

\* ConstraintManager.get_table_foreign_keys
get_table_foreign_keys(db, table_name) ==
    IF table_name \notin DOMAIN db.catalog.table_cache THEN <<>>
    ELSE SelectSeq(db.fk_cache, LAMBDA fk :
            fk.table_id = db.catalog.table_cache[table_name].table_id)

\* ConstraintManager.get_referencing_foreign_keys
get_referencing_foreign_keys(db, ref_table_name) ==
    IF ref_table_name \notin DOMAIN db.catalog.table_cache THEN <<>>
    ELSE SelectSeq(db.fk_cache, LAMBDA fk :
            fk.ref_table_id = db.catalog.table_cache[ref_table_name].table_id)

\* ConstraintValidator._get_table_name_by_id
get_table_name_by_id(cat, table_id) ==
    LET names == {n \in DOMAIN cat.table_cache :
                    cat.table_cache[n].table_id = table_id}
    IN  IF names = {} THEN None ELSE CHOOSE n \in names : TRUE

\* ConstraintValidator._parent_key_exists : False when the table id has no
\* name, or when the scan raises
parent_key_exists(db, fk, value) ==
    LET ref_table_name == get_table_name_by_id(db.catalog, fk.ref_table_id)
    IN  /\ ref_table_name # None
        /\ ref_table_name \in DOMAIN db.store
        /\ \E row \in Range(StoreSeqScan(db.store, ref_table_name)) :
              Field(row, fk.ref_column_name) = value

\* ConstraintValidator._child_key_exists
child_key_exists(db, fk, value) ==
    LET child_table_name == get_table_name_by_id(db.catalog, fk.table_id)
    IN  /\ child_table_name # None
        /\ child_table_name \in DOMAIN db.store
        /\ \E row \in Range(StoreSeqScan(db.store, child_table_name)) :
              Field(row, fk.column_name) = value

\* the validators below are TRUE when the call raises
\* ForeignKeyValidationError

\* ConstraintValidator.validate_insert_foreign_keys
validate_insert_foreign_keys(db, table_name, row_data) ==
    \E fk \in Range(get_table_foreign_keys(db, table_name)) :
        /\ Field(row_data, fk.column_name) # NULL
        /\ ~parent_key_exists(db, fk, Field(row_data, fk.column_name))

\* ConstraintValidator.validate_update_foreign_keys
validate_update_foreign_keys(db, table_name, old_row, new_row) ==
    \E fk \in Range(get_table_foreign_keys(db, table_name)) :
        /\ Field(old_row, fk.column_name) # Field(new_row, fk.column_name)
        /\ Field(new_row, fk.column_name) # NULL
        /\ ~parent_key_exists(db, fk, Field(new_row, fk.column_name))

\* ConstraintValidator.validate_delete_referenced_keys
validate_delete_referenced_keys(db, table_name, row_data) ==
    \E fk \in Range(get_referencing_foreign_keys(db, table_name)) :
        /\ Field(row_data, fk.ref_column_name) # NULL
        /\ child_key_exists(db, fk, Field(row_data, fk.ref_column_name))

\* ConstraintValidator.validate_update_referenced_keys
validate_update_referenced_keys(db, table_name, old_row, new_row) ==
    \E fk \in Range(get_referencing_foreign_keys(db, table_name)) :
        /\ Field(old_row, fk.ref_column_name) # Field(new_row, fk.ref_column_name)
        /\ Field(old_row, fk.ref_column_name) # NULL
        /\ child_key_exists(db, fk, Field(old_row, fk.ref_column_name))

\* CatalogManager.add_foreign_key, which hands the declaration to the
\* constraint registry
catalog_add_foreign_key(db, table_name, column_name, ref_table_name, ref_column_name) ==
    add_foreign_key(db, table_name, column_name, ref_table_name, ref_column_name)

\* CatalogManager.validate_foreign_key_constraints : the validator hook of
\* the operation; an UPDATE checks the foreign keys of the table and the
\* foreign keys that reference it
validate_foreign_key_constraints(db, operation, table_name, row_data, old_row) ==
    CASE operation = "INSERT" ->
           validate_insert_foreign_keys(db, table_name, row_data)
      [] operation = "DELETE" ->
           validate_delete_referenced_keys(db, table_name, row_data)
      [] operation = "UPDATE" ->
           \/ validate_update_foreign_keys(db, table_name, old_row, row_data)
           \/ validate_update_referenced_keys(db, table_name, old_row, row_data)

\* ================================================== executor: the operators
\* update_func of UpdateOperator.execute : the row with the SET clause
\* applied, or the ExecutionError of a foreign-key violation : [raised, row]
update_func(db, table_name, set, row) ==
    LET updated_row == (set.col :> set.val) @@ row
    IN  IF validate_foreign_key_constraints(db, "UPDATE", table_name,
                                            updated_row, row)
        THEN [raised |-> "ExecutionError", row |-> row]
        ELSE [raised |-> "", row |-> updated_row]

\* the slot loop of StorageEngine.update_where on one page, over the slots
\* the page had when the loop started; an exception of update_func or of
\* encode_row skips the slot : [page, count]
RECURSIVE UpdateSelected(_, _, _, _, _, _, _)
UpdateSelected(db, table_name, page, slot_id, slot_end, plan, count) ==
    IF slot_id >= slot_end THEN [page |-> page, count |-> count]
    ELSE IF is_deleted(page, slot_id)
            \/ ~Selected(plan.cond, read(page, slot_id).body.row)
    THEN UpdateSelected(db, table_name, page, slot_id + 1, slot_end, plan, count)
    ELSE Let(update_func(db, table_name, plan.set, read(page, slot_id).body.row),
             LAMBDA u :
           IF u.raised # ""
           THEN UpdateSelected(db, table_name, page, slot_id + 1, slot_end,
                               plan, count)
           ELSE Let(schema_encode_row(db.store[table_name].columns, u.row),
                    LAMBDA e :
                  IF e.raised # ""
                  THEN UpdateSelected(db, table_name, page, slot_id + 1,
                                      slot_end, plan, count)
                  ELSE Let(insert(delete(page, slot_id).page, e.bytes),
                           LAMBDA r :
                         UpdateSelected(db, table_name, r.page, slot_id + 1,
                                        slot_end, plan,
                                        IF r.ret # -1 THEN count + 1 ELSE count))))

\* StorageEngine.update_where with the update_func of the operator :
\* [store, count]
StoreUpdateWhere(db, table_name, plan) ==
    LET pages == db.store[table_name].pages
        done  == [i \in 1..Len(pages) |->
                    UpdateSelected(db, table_name, pages[i], 0,
                                   pages[i].slot_count, plan, 0)]
    IN  [store |-> [db.store EXCEPT ![table_name].pages =
                       [i \in 1..Len(pages) |-> done[i].page]],
         count |-> SumSeq([i \in 1..Len(pages) |-> done[i].count])]

\* the result of a statement: the database it leaves, "success" or "error",
\* what was raised, and the affected row count
Outcome(db, raised, affected_rows) ==
    [db |-> db, status |-> IF raised = "" THEN "success" ELSE "error",
     raised |-> raised, affected_rows |-> affected_rows]

\* CreateTableOperator.execute : plan = [table, columns, table_constraints]
RECURSIVE AddForeignKeys(_, _, _)
AddForeignKeys(db, table_name, table_constraints) ==
    IF table_constraints = <<>> THEN Outcome(db, "", 0)
    ELSE Let(catalog_add_foreign_key(db, table_name,
                                     Head(table_constraints).column_name,
                                     Head(table_constraints).ref_table,
                                     Head(table_constraints).ref_column),
             LAMBDA a :
           IF a.raised # "" THEN Outcome(db, "ExecutionError", 0)
           ELSE AddForeignKeys([db EXCEPT !.fk_cache = a.fk_cache], table_name,
                               Tail(table_constraints)))

CreateTableOperator(db, plan) ==
    Let(StoreCreateTable(db.store, plan.table, plan.columns), LAMBDA c :
      IF c.raised # "" THEN Outcome(db, "ExecutionError", 0)
      ELSE Let(register_table(db.catalog, plan.table, plan.columns), LAMBDA g :
             IF g.raised # ""
             THEN Outcome([db EXCEPT !.store = c.store], "ExecutionError", 0)
             ELSE AddForeignKeys([db EXCEPT !.store = c.store,
                                            !.catalog = g.catalog],
                                 plan.table, plan.table_constraints)))

\* InsertOperator.execute for INSERT INTO table (columns) VALUES (...): the
\* the constraint set of a column's metadata: the one of its definition in
\* CREATE TABLE, empty for a column defined without constraints
NoConstraints ==
    [primary_key |-> FALSE, not_null |-> FALSE, unique |-> FALSE,
     has_default |-> FALSE]

constraints(col) ==
    IF "constraints" \in DOMAIN col THEN col.constraints ELSE NoConstraints

\* InsertOperator._check_unique_value
check_unique_value(db, table_name, column_name, value) ==
    /\ table_name \in DOMAIN db.store
    /\ \E row \in Range(StoreSeqScan(db.store, table_name)) :
          Field(row, column_name) = value

\* InsertOperator._check_constraints : TRUE when it raises ExecutionError
check_constraints(db, table_name, row_data) ==
    \E col \in Range(get_table_columns(db.catalog, table_name)) :
        LET value == Field(row_data, col.name)
        IN  \/ constraints(col).not_null /\ value = NULL
            \/ /\ constraints(col).unique \/ constraints(col).primary_key
               /\ value # NULL
               /\ check_unique_value(db, table_name, col.name, value)

\* columns left out are filled with None (no column has a DEFAULT)
InsertOperator(db, table_name, values) ==
    IF table_name \notin DOMAIN db.store THEN Outcome(db, "ExecutionError", 0)
    ELSE LET all_columns == get_table_columns(db.catalog, table_name)
             row_data == [n \in DOMAIN values
                                \cup {col.name : col \in Range(all_columns)} |->
                            Field(values, n)]
         IN  IF check_constraints(db, table_name, row_data)
             THEN Outcome(db, "ExecutionError", 0)
             ELSE IF validate_foreign_key_constraints(db, "INSERT", table_name,
                                                      row_data, row_data)
             THEN Outcome(db, "ForeignKeyValidationError", 0)
             ELSE Let(StoreInsertRow(db.store, table_name, row_data), LAMBDA r :
                    IF r.raised # "" \/ ~r.ok
                    THEN Outcome([db EXCEPT !.store = r.store],
                                 "ExecutionError", 0)
                    ELSE Outcome([db EXCEPT
                                    !.store = r.store,
                                    !.catalog = update_table_row_count(
                                                    @, table_name, 1)],
                                 "", 1))

\* DeleteOperator.execute : every row to delete is validated before
\* delete_where runs
DeleteOperator(db, table_name, cond) ==
    IF table_name \notin DOMAIN db.store THEN Outcome(db, "ExecutionError", 0)
    ELSE IF \E row \in Range(StoreSeqScan(db.store, table_name)) :
               /\ Selected(cond, row)
               /\ validate_foreign_key_constraints(db, "DELETE", table_name,
                                                   row, row)
    THEN Outcome(db, "ForeignKeyValidationError", 0)
    ELSE Let(StoreDeleteWhere(db.store, table_name, cond), LAMBDA r :
           Outcome([db EXCEPT
                      !.store = r.store,
                      !.catalog = IF r.count # 0
                                  THEN update_table_row_count(@, table_name,
                                                              0 - r.count)
                                  ELSE @],
                   "", r.count))

\* UpdateOperator.execute : plan = [cond, set]
UpdateOperator(db, table_name, plan) ==
    IF table_name \notin DOMAIN db.store THEN Outcome(db, "ExecutionError", 0)
    ELSE Let(StoreUpdateWhere(db, table_name, plan), LAMBDA r :
           Outcome([db EXCEPT !.store = r.store], "", r.count))

\* the hidden table of a rewrite: f"__alter_tmp_{src_table}"
TmpName == [p |-> "__alter_tmp_p", c |-> "__alter_tmp_c", q |-> "__alter_tmp_q"]

\* the row copy of _rewrite_table without a mapper
PlainCopy == [action |-> "COPY"]

\* the row mapper that AlterTableOperator.execute builds for an action
row_mapper(plan, row) ==
    CASE plan.action = "ADD_COLUMN" -> (plan.name :> NULL) @@ row
      [] plan.action = "DROP_COLUMN" -> DropKey(row, plan.name)
      [] plan.action = "CHANGE_COLUMN" ->
           (plan.new_name :> Field(row, plan.old_name)) @@ DropKey(row, plan.old_name)
      [] OTHER -> row

\* the column list that AlterTableOperator.execute builds for an action :
\* [raised, columns]
new_cols(cols_norm, plan) ==
    LET col == [name |-> IF plan.action = "CHANGE_COLUMN" THEN plan.new_name
                         ELSE plan.name,
                type |-> plan.type, max_length |-> plan.max_length]
        target == IF plan.action = "CHANGE_COLUMN" THEN plan.old_name
                  ELSE plan.name
        exists == \E i \in 1..Len(cols_norm) : cols_norm[i].name = target
    IN  CASE plan.action = "RENAME" -> [raised |-> "", columns |-> cols_norm]
          [] plan.action = "ADD_COLUMN" ->
               [raised |-> "", columns |-> Append(cols_norm, col)]
          [] plan.action = "DROP_COLUMN" ->
               IF ~exists THEN [raised |-> "ExecutionError", columns |-> cols_norm]
               ELSE [raised |-> "",
                     columns |-> SelectSeq(cols_norm, LAMBDA x : x.name # target)]
          [] OTHER ->
               IF ~exists THEN [raised |-> "ExecutionError", columns |-> cols_norm]
               ELSE [raised |-> "",
                     columns |-> [i \in 1..Len(cols_norm) |->
                                    IF cols_norm[i].name = target THEN col
                                    ELSE cols_norm[i]]]

\* the copy loops of _rewrite_table: insert_row for each row, its result
\* ignored, an exception ending the loop : [store, raised]
RECURSIVE CopyRows(_, _, _, _)
CopyRows(st, rows, dest_table, plan) ==
    IF rows = <<>> THEN [store |-> st, raised |-> ""]
    ELSE Let(StoreInsertRow(st, dest_table, row_mapper(plan, Head(rows))),
             LAMBDA r :
           IF r.raised # "" THEN [store |-> r.store, raised |-> r.raised]
           ELSE CopyRows(r.store, Tail(rows), dest_table, plan))

\* AlterTableOperator._rewrite_table : the store it leaves, and the exception
\* that ended it, if any : [store, raised]
rewrite_table(st, src_table, target_cols, dest_table, plan) ==
    Let(StoreCreateTable(st, TmpName[src_table], target_cols), LAMBDA c1 :
      IF c1.raised # "" \/ src_table \notin DOMAIN st
      THEN [store |-> c1.store, raised |-> "ValueError"]
      ELSE Let(CopyRows(c1.store, StoreSeqScan(st, src_table),
                        TmpName[src_table], plan), LAMBDA c2 :
        IF c2.raised # "" THEN c2
        ELSE Let(StoreCreateTable(IF dest_table = src_table
                                  THEN StoreDropTable(c2.store, src_table)
                                  ELSE c2.store,
                                  dest_table, target_cols), LAMBDA c3 :
          IF c3.raised # "" THEN c3
          ELSE Let(CopyRows(c3.store, StoreSeqScan(c3.store, TmpName[src_table]),
                            dest_table, PlainCopy), LAMBDA c4 :
            IF c4.raised # "" THEN c4
            ELSE [store |-> IF dest_table = src_table
                            THEN StoreDropTable(c4.store, TmpName[src_table])
                            ELSE StoreDropTable(
                                   StoreDropTable(c4.store, TmpName[src_table]),
                                   src_table),
                  raised |-> ""]))))

\* AlterTableOperator.execute : the rewrite, then unregister_table and
\* register_table, then the row count of the new catalog entry
AlterTableOperator(db, plan) ==
    IF plan.table \notin DOMAIN db.catalog.table_cache
    THEN Outcome(db, "ExecutionError", 0)
    ELSE Let(new_cols([i \in 1..Len(get_table_columns(db.catalog, plan.table)) |->
                         LET c == get_table_columns(db.catalog, plan.table)[i]
                         IN  [name |-> c.name, type |-> c.type,
                              max_length |-> c.max_length]], plan), LAMBDA t :
      IF t.raised # "" THEN Outcome(db, t.raised, 0)
      ELSE Let(rewrite_table(db.store, plan.table, t.columns,
                             IF plan.action = "RENAME" THEN plan.new_name
                             ELSE plan.table, plan), LAMBDA w :
        IF w.raised # "" THEN Outcome([db EXCEPT !.store = w.store], w.raised, 0)
        ELSE Let(register_table(unregister_table(db.catalog, plan.table),
                                IF plan.action = "RENAME" THEN plan.new_name
                                ELSE plan.table, t.columns), LAMBDA g :
          IF g.raised # ""
          THEN Outcome([db EXCEPT !.store = w.store, !.catalog = g.catalog],
                       g.raised, 0)
          ELSE IF plan.action = "RENAME"
          THEN Let(Len(StoreSeqScan(w.store, plan.new_name)), LAMBDA row_count :
                 Outcome([db EXCEPT
                            !.store = w.store,
                            !.catalog = IF row_count # 0
                                        THEN update_table_row_count(
                                               g.catalog, plan.new_name, row_count)
                                        ELSE g.catalog],
                         "", 0))
          ELSE Outcome([db EXCEPT
                          !.store = w.store,
                          !.catalog = update_table_row_count(
                                        g.catalog, plan.table,
                                        Len(StoreSeqScan(w.store, plan.table)))],
                       "", 0))))

\* --------------------------------------------------------------- ExecSpec
MaxStmts == 4      \* ExecSpec: statements executed

ExecTables == {"p", "c", "q"}

\* a string that makes the row (id, name) as large as a page can hold
Huge == StrVal(4066)

\* CREATE TABLE p (id INT, name VARCHAR(5000))
ParentPlan ==
    [table |-> "p",
     columns |-> <<[name |-> "id",   type |-> "INT",     max_length |-> 0],
                   [name |-> "name", type |-> "VARCHAR", max_length |-> 5000]>>,
     table_constraints |-> <<>>]

\* CREATE TABLE c (id INT PRIMARY KEY, pid INT,
\*                  FOREIGN KEY (pid) REFERENCES p(id))
ChildPlan ==
    [table |-> "c",
     columns |-> <<[name |-> "id",  type |-> "INT", max_length |-> 0,
                    constraints |-> [primary_key |-> TRUE, not_null |-> TRUE,
                                     unique |-> FALSE, has_default |-> FALSE]],
                   [name |-> "pid", type |-> "INT", max_length |-> 0]>>,
     table_constraints |->
        <<[column_name |-> "pid", ref_table |-> "p", ref_column |-> "id"]>>]

InsertValues(table_name) ==
    IF table_name = "c"
    THEN {[id |-> IntVal(10), pid |-> IntVal(1)],
          [id |-> IntVal(11), pid |-> NULL]}
    ELSE {[id |-> IntVal(1), name |-> Huge],
          [id |-> IntVal(2), name |-> NULL]}

Conds == {NoCond, [col |-> "id", val |-> IntVal(1)]}

SetClauses(table_name) ==
    IF table_name = "c"
    THEN {[col |-> "pid", val |-> IntVal(2)], [col |-> "id", val |-> IntVal(10)]}
    ELSE {[col |-> "name", val |-> Huge], [col |-> "id", val |-> IntVal(3)]}

AlterPlans ==
    {[table |-> "p", action |-> "RENAME", new_name |-> "q"],
     [table |-> "p", action |-> "ADD_COLUMN", name |-> "x",
      type |-> "INT", max_length |-> 0],
     [table |-> "c", action |-> "ADD_COLUMN", name |-> "x",
      type |-> "INT", max_length |-> 0],
     [table |-> "p", action |-> "DROP_COLUMN", name |-> "name"],
     [table |-> "p", action |-> "MODIFY_COLUMN", name |-> "name",
      type |-> "VARCHAR", max_length |-> 10],
     [table |-> "p", action |-> "CHANGE_COLUMN", old_name |-> "name",
      new_name |-> "title", type |-> "VARCHAR", max_length |-> 5000]}

NewDb == [store |-> <<>>, catalog |-> NewCatalog, fk_cache |-> <<>>]

CurrentDb == [store |-> store, catalog |-> catalog, fk_cache |-> fk_cache]

\* the database after the two CREATE TABLE statements
ExecInit ==
    /\ pg = NewPage(1) /\ issued = {}
    /\ cache = <<>> /\ cache_order = <<>> /\ fifo_queue = <<>>
    /\ dirty_pages = {} /\ disk = <<>> /\ capacity = 1 /\ policy = "LRU"
    /\ put_log = <<>> /\ accessed = <<>> /\ entered = <<>>
    /\ inserted = <<>> /\ fresh = TRUE /\ tables = {}
    /\ \E created \in {CreateTableOperator(
                         CreateTableOperator(NewDb, ParentPlan).db, ChildPlan).db} :
          /\ store = created.store
          /\ catalog = created.catalog
          /\ fk_cache = created.fk_cache
    /\ declared = {[child |-> "c", column |-> "pid",
                    parent |-> "p", ref_column |-> "id"]}
    /\ last = IdleLast /\ nops = 0

\* a statement has run: the database it leaves and what it reported
ExecStep(o, statement) ==
    /\ nops < MaxStmts
    /\ store' = o.db.store
    /\ catalog' = o.db.catalog
    /\ fk_cache' = o.db.fk_cache
    /\ last' = statement @@ [status |-> o.status, raised |-> o.raised,
                             affected_rows |-> o.affected_rows]
    /\ nops' = nops + 1
    /\ UNCHANGED <<pageVars, poolVars, histVars, engineVars>>

ExecInsert ==
    \E table_name \in ExecTables : \E values \in InsertValues(table_name) :
        /\ ExecStep(InsertOperator(CurrentDb, table_name, values),
                    [op |-> "INSERT", table |-> table_name, values |-> values])
        /\ UNCHANGED declared

ExecDelete ==
    \E table_name \in ExecTables : \E cond \in Conds :
        /\ ExecStep(DeleteOperator(CurrentDb, table_name, cond),
                    [op |-> "DELETE", table |-> table_name, cond |-> cond])
        /\ UNCHANGED declared

ExecUpdate ==
    \E table_name \in ExecTables : \E cond \in Conds :
        \E set \in SetClauses(table_name) :
            /\ ExecStep(UpdateOperator(CurrentDb, table_name,
                                       [cond |-> cond, set |-> set]),
                        [op |-> "UPDATE", table |-> table_name, cond |-> cond,
                         set |-> set])
            /\ UNCHANGED declared

\* ALTER TABLE; the semantic analysis lets ADD and CHANGE through only when
\* the new column does not exist yet. A successful RENAME renames the table
\* in the declared foreign keys.
ExecAlter ==
    \E plan \in AlterPlans : \E o \in {AlterTableOperator(CurrentDb, plan)} :
        /\ plan.action \in {"ADD_COLUMN", "CHANGE_COLUMN"} =>
              ~column_exists(catalog, plan.table,
                             IF plan.action = "ADD_COLUMN" THEN plan.name
                             ELSE plan.new_name)
        /\ ExecStep(o, [op |-> "ALTER", plan |-> plan])
        /\ declared' =
              IF o.status = "success" /\ plan.action = "RENAME"
              THEN {[d EXCEPT
                       !.child  = IF @ = plan.table THEN plan.new_name ELSE @,
                       !.parent = IF @ = plan.table THEN plan.new_name ELSE @]
                    : d \in declared}
              ELSE declared

ExecNext ==
    \/ ExecInsert
    \/ ExecDelete
    \/ ExecUpdate
    \/ ExecAlter

ExecSpec == ExecInit /\ [][ExecNext]_vars

\* ===================================================== ExpressionEvaluator
\* A Python value is NULL (None), BoolVal(b), IntVal(i) or StrVal(n); an
\* expression is such a value or a node [type, ...] (a dict).
BoolVal(b) == [kind |-> "bool", v |-> b]

\* bool(value): None, False, 0 and the empty string are false
bool(value) ==
    CASE value.kind = "bool" -> value.v
      [] value.kind = "int"  -> value.v # 0
      [] value.kind = "str"  -> value.len # 0
      [] OTHER -> FALSE

\* ExpressionEvaluator._eval_and on the results of its operands; the right
\* operand is evaluated only when the left one is truthy, which changes
\* nothing for operands without effects
eval_and(left_result, right_result) ==
    IF ~bool(left_result) THEN BoolVal(FALSE)
    ELSE BoolVal(bool(right_result))

\* ExpressionEvaluator._eval_or
eval_or(left_result, right_result) ==
    IF bool(left_result) THEN BoolVal(TRUE)
    ELSE BoolVal(bool(right_result))

\* ExpressionEvaluator._eval_not
eval_not(inner_result) == BoolVal(~bool(inner_result))

\* ExpressionEvaluator.evaluate for the logical nodes; whatever is not a
\* dict is returned as it is
RECURSIVE evaluate(_)
evaluate(expression) ==
    IF "type" \notin DOMAIN expression THEN expression
    ELSE CASE expression.type = "and" ->
                eval_and(evaluate(expression.left), evaluate(expression.right))
           [] expression.type = "or" ->
                eval_or(evaluate(expression.left), evaluate(expression.right))
           [] OTHER -> eval_not(evaluate(expression.condition))

\* the logical values, and the expressions over them up to two levels
Logical == {BoolVal(TRUE), BoolVal(FALSE), NULL}

Nodes(operands) ==
    {[type |-> t, left |-> l, right |-> r] :
        t \in {"and", "or"}, l \in operands, r \in operands}
    \cup {[type |-> "not", condition |-> e] : e \in operands}

\* a query operator is called once, on a fresh operator object: what it
\* was given and what it produced
FuncStep(record) ==
    /\ last = IdleLast
    /\ last' = record
    /\ UNCHANGED <<pageVars, poolVars, histVars, engineVars, execVars, nops>>

Evaluate ==
    \E expression \in Nodes(Logical \cup Nodes(Logical)) :
        FuncStep([op |-> "evaluate", expression |-> expression,
                  result |-> evaluate(expression)])

\* ================================================== GroupAggregateOperator
MaxRows == 2       \* FuncSpec: rows in a child stream

\* AggregateFunction.reset
reset(func_name, column) ==
    [func_name |-> func_name, column |-> column, count |-> 0, count_all |-> 0,
     sum_value |-> 0, min_value |-> NULL, max_value |-> NULL,
     has_values |-> FALSE]

\* AggregateFunction.accumulate, for integer values and None
accumulate(agg, value) ==
    IF agg.func_name = "COUNT" /\ agg.column = "*"
    THEN [agg EXCEPT !.count_all = @ + 1, !.count = @ + 1, !.has_values = TRUE]
    ELSE IF value = NULL THEN [agg EXCEPT !.count_all = @ + 1]
    ELSE [agg EXCEPT
            !.count_all = @ + 1, !.has_values = TRUE, !.count = @ + 1,
            !.sum_value = IF agg.func_name \in {"SUM", "AVG"} THEN @ + value.v
                          ELSE @,
            !.min_value = IF agg.func_name \notin {"MIN", "MAX"} THEN @
                          ELSE IF @ = NULL \/ value.v < @.v THEN value ELSE @,
            !.max_value = IF agg.func_name \notin {"MIN", "MAX"} THEN @
                          ELSE IF @ = NULL \/ value.v > @.v THEN value ELSE @]

\* AggregateFunction.get_result; the quotient of AVG is kept as its two terms
get_result(agg) ==
    IF agg.func_name = "COUNT" THEN IntVal(agg.count)
    ELSE IF ~agg.has_values THEN NULL
    ELSE CASE agg.func_name = "SUM" -> IntVal(agg.sum_value)
           [] agg.func_name = "AVG" ->
                IF agg.count = 0 THEN NULL
                ELSE [kind |-> "quotient", sum |-> agg.sum_value,
                      count |-> agg.count]
           [] agg.func_name = "MIN" -> agg.min_value
           [] OTHER -> agg.max_value

\* GroupAggregateOperator._perform_grouping_and_aggregation : the groups in
\* the order they were first met, each [group_key, aggs]
RECURSIVE perform_grouping_and_aggregation(_, _, _, _)
perform_grouping_and_aggregation(groups, rows, group_keys, aggregates) ==
    IF rows = <<>> THEN groups
    ELSE LET row == Head(rows)
             group_key == [i \in 1..Len(group_keys) |-> Field(row, group_keys[i])]
             known == \E i \in 1..Len(groups) : groups[i].group_key = group_key
             with == IF known THEN groups
                     ELSE Append(groups,
                            [group_key |-> group_key,
                             aggs |-> [a \in DOMAIN aggregates |->
                                         reset(aggregates[a].func,
                                               aggregates[a].column)]])
             fed(aggs) == [a \in DOMAIN aggs |->
                             accumulate(aggs[a],
                                IF aggs[a].column = "*" THEN IntVal(1)
                                ELSE Field(row, aggs[a].column))]
         IN  perform_grouping_and_aggregation(
                [i \in 1..Len(with) |->
                    IF with[i].group_key = group_key
                    THEN [with[i] EXCEPT !.aggs = fed(@)] ELSE with[i]],
                Tail(rows), group_keys, aggregates)

\* GroupAggregateOperator._generate_results : one row for each group
generate_results(groups, group_keys) ==
    [g \in 1..Len(groups) |->
        [c \in Range(group_keys) \cup DOMAIN groups[g].aggs |->
            IF c \in DOMAIN groups[g].aggs THEN get_result(groups[g].aggs[c])
            ELSE groups[g].group_key[CHOOSE i \in 1..Len(group_keys) :
                                        group_keys[i] = c]]]

\* the aggregates of a plan, by alias
Aggregates ==
    [cnt_all |-> [func |-> "COUNT", column |-> "*"],
     cnt     |-> [func |-> "COUNT", column |-> "v"],
     sum     |-> [func |-> "SUM",   column |-> "v"],
     avg     |-> [func |-> "AVG",   column |-> "v"],
     min     |-> [func |-> "MIN",   column |-> "v"],
     max     |-> [func |-> "MAX",   column |-> "v"]]

\* the child streams: up to MaxRows rows (k, v)
ChildRow == [k : {IntVal(1), IntVal(2)}, v : {NULL, IntVal(1), IntVal(2)}]

Streams(rowset) == UNION {[1..n -> rowset] : n \in 0..MaxRows}

\* GroupAggregateOperator.execute without HAVING
GroupAggregate ==
    \E rows \in Streams(ChildRow) : \E keys \in {<<>>, <<"k">>} :
        \E groups \in {perform_grouping_and_aggregation(
                           <<>>, rows, keys, Aggregates)} :
            FuncStep([op |-> "GroupAggregate", rows |-> rows,
                      group_keys |-> keys,
                      result |-> generate_results(groups, keys)])

\* =========================================================== LimitOperator
\* LimitOperator.execute is a generator: it runs when its consumer asks for
\* a row and rests at each yield. The loop below is run for a consumer that
\* asks `asks` times; i is the next row of the child, and the outcome is
\* the rows yielded and the number of rows pulled from the child.
RECURSIVE LimitLoop(_, _, _, _, _, _, _, _)
LimitLoop(child_results, i, offset, count, current_index, returned_count, yielded, asks) ==
    IF Len(yielded) = asks \/ i > Len(child_results)
    THEN [yielded |-> yielded, pulled |-> i - 1]
    ELSE IF current_index < offset
    THEN LimitLoop(child_results, i + 1, offset, count, current_index + 1,
                   returned_count, yielded, asks)
    ELSE IF returned_count < count
    THEN LimitLoop(child_results, i + 1, offset, count, current_index + 1,
                   returned_count + 1, Append(yielded, child_results[i]), asks)
    ELSE [yielded |-> yielded, pulled |-> i]

\* a child stream of n numbered rows; a consumer that asks once more than
\* count has seen the end of the Limit's output
Limit ==
    \E n \in 0..(MaxRows + 1) : \E offset \in 0..MaxRows :
        \E count \in 1..MaxRows : \E asks \in 0..(count + 1) :
            \E r \in {LimitLoop([i \in 1..n |-> IntVal(i)], 1, offset, count,
                                0, 0, <<>>, asks)} :
                FuncStep([op |-> "Limit", rows |-> [i \in 1..n |-> IntVal(i)],
                          offset |-> offset, count |-> count, asks |-> asks,
                          result |-> r.yielded, pulled |-> r.pulled])

\* ============================================================ JoinOperator
\* JOIN l, r ON l.id = r.id, rows of l being (id) and rows of r (id, b)
LeftPrefix == "l"
RightPrefix == "r"
RightColumns == {"id", "b"}

\* JoinOperator._match_join_condition
match_join_condition(left_row, right_row) ==
    /\ Field(left_row, "id") # NULL
    /\ Field(right_row, "id") # NULL
    /\ Field(left_row, "id") = Field(right_row, "id")

\* f"{prefix}.{col}" for the columns of the two tables
Prefixed ==
    [l |-> [id |-> "l.id"], r |-> [id |-> "r.id", b |-> "r.b"]]

\* JoinOperator._merge_rows : the columns of both rows under their prefixes
merge_rows(left_row, right_row) ==
    [c \in {Prefixed[LeftPrefix][col] : col \in DOMAIN left_row}
           \cup {Prefixed[RightPrefix][col] : col \in DOMAIN right_row} |->
        IF \E col \in DOMAIN right_row : c = Prefixed[RightPrefix][col]
        THEN right_row[CHOOSE col \in DOMAIN right_row :
                          c = Prefixed[RightPrefix][col]]
        ELSE left_row[CHOOSE col \in DOMAIN left_row :
                         c = Prefixed[LeftPrefix][col]]]

\* JoinOperator._create_null_row
create_null_row(template_row) == [col \in DOMAIN template_row |-> NULL]

\* JoinOperator._execute_left_join : the rows yielded, in order
RECURSIVE execute_left_join(_, _)
execute_left_join(left_data, right_rows) ==
    IF left_data = <<>> THEN <<>>
    ELSE LET left_row == Head(left_data)
             matches == SelectSeq(right_rows,
                           LAMBDA right_row :
                              match_join_condition(left_row, right_row))
         IN  (IF matches # <<>>
              THEN [i \in 1..Len(matches) |-> merge_rows(left_row, matches[i])]
              ELSE <<merge_rows(left_row,
                                create_null_row(IF right_rows # <<>>
                                                THEN right_rows[1] ELSE <<>>))>>)
             \o execute_left_join(Tail(left_data), right_rows)

JoinKeys == {NULL, IntVal(1), IntVal(2)}

\* JoinOperator.execute with join_type LEFT
LeftJoin ==
    \E left_data \in Streams([id : JoinKeys]) :
        \E right_rows \in Streams([id : JoinKeys, b : {IntVal(7)}]) :
            FuncStep([op |-> "LeftJoin", left |-> left_data,
                      right |-> right_rows,
                      result |-> execute_left_join(left_data, right_rows)])

\* =========================================================== RecordEncoder
\* rows of (id INT, name VARCHAR(3000)) with values of either kind: "ab" and
\* "42" for id, 7 and a string too long for name
EncodeRows ==
    [id   : {NULL, IntVal(1), StrVal(2), NumStrVal(42)},
     name : {NULL, StrVal(3), IntVal(7), StrVal(3001)}]

\* TableSchema.encode_row, and decode_row of what it returned
Encode ==
    \E row_data \in EncodeRows : \E e \in {encode_row(row_data)} :
        FuncStep([op |-> "encode", row |-> row_data, raised |-> e.raised,
                  decoded |-> IF e.raised = "" THEN decode_row(e.bytes).row
                              ELSE <<>>])

FuncNext ==
    \/ Evaluate
    \/ GroupAggregate
    \/ Limit
    \/ LeftJoin
    \/ Encode

FuncSpec == PageInit /\ [][FuncNext]_vars

\* ================================================================ claims
\* ---------------------------------------------------------------- PageSpec

\* C8: on every slotted page reached from a new empty page by inserts and
\* deletes, data_start >= 14 + 5 * slot_count: the slot directory never
\* overlaps the record area.
C8_DirectoryBelowData == pg.data_start >= 14 + 5 * pg.slot_count

\* a page filled to the last byte by two inserts
C8_Witness ==
    /\ pg.slot_count = 2
    /\ get_free_space(pg) = 0
    /\ last.op = "insert" /\ last.ret = 1

\* C9: slot ids are stable: a successful insert returns a slot id that no
\* earlier insert on the page returned, and an insert or delete leaves the
\* offset, length and bytes of every existing slot as they were; the only
\* tombstone that changes is the one of the slot given to delete, which is
\* set, and read returns the same bytes for every other live slot.
C9_SlotIdsStable ==
    [][(nops' = nops + 1) =>
        /\ (last'.op = "insert" /\ last'.ret >= 0) => last'.ret \notin issued
        /\ \A s \in 0..(pg.slot_count - 1) :
             LET old == pg.slots[s + 1]
                 new == pg'.slots[s + 1]
                 target == last'.op = "delete" /\ last'.slot_id = s
             IN  /\ s < pg'.slot_count
                 /\ new.offset = old.offset
                 /\ new.length = old.length
                 /\ ReadBytes(pg'.cells, old.offset, old.length)
                        = ReadBytes(pg.cells, old.offset, old.length)
                 /\ (new.tomb # old.tomb) => (target /\ new.tomb)
                 /\ (~old.tomb /\ ~target) => read(pg', s) = read(pg, s)
      ]_vars

\* an insert has just succeeded on a page that holds a tombstoned slot and a
\* live one
C9_Witness ==
    /\ last.op = "insert" /\ last.ret = 2
    /\ pg.slot_count = 3
    /\ pg.slots[1].tomb /\ ~pg.slots[2].tomb

\* C10: for a non-empty record, insert fails for lack of space exactly when
\* free_space < len(record) + 5, and a failed insert leaves the header, the
\* slot directory and the record bytes of the page unchanged.
C10_InsertFailsIffNoRoom ==
    [][(nops' = nops + 1 /\ last'.op = "insert" /\ last'.record.len > 0) =>
        /\ (last'.ret = -1) <=> (get_free_space(pg) < last'.record.len + 5)
        /\ (last'.ret = -1) => (pg' = pg)
      ]_vars

\* an insert has just failed for one missing byte on a page that holds a record
C10_Witness ==
    /\ last.op = "insert" /\ last.ret = -1 /\ last.raised = ""
    /\ pg.slot_count = 1
    /\ get_free_space(pg) = last.record.len + SLOT_SIZE - 1

\* ---------------------------------------------------------------- PoolSpec

\* C5: whenever a page leaves the buffer pool while it is dirty, read_page
\* for its key then returns the content the page had in the cache when it
\* left; no modification put into the pool as dirty is lost by eviction.
C5_DirtyEvictionWritten ==
    [][\A k \in dirty_pages :
          (k \in DOMAIN cache /\ k \notin DOMAIN cache') =>
              /\ CanReadPage(disk', k[1], k[2])
              /\ read_page(disk', k[1], k[2]) = cache[k]
      ]_vars

\* a get_page miss on a full pool has just evicted a dirty page that holds a
\* record, and the file has it
C5_Witness ==
    /\ last.op = "get_page" /\ last.miss
    /\ \E k \in last.evicted_dirty :
          /\ disk[k[1]][k[2]].slot_count = 1
          /\ k \notin DOMAIN cache

\* what get_page returns for a key in the current state
GetPageResult(key) ==
    LET r == get_page(CurrentState, key[1], key[2])
    IN  [ok |-> r.ok, page |-> IF r.ok THEN r.st.cache[key] ELSE NewPage(0)]

\* C6 as stated: get_page returns the content of the most recent put_page for
\* the key, whatever happened to other pages in between.
C6_GetReturnsLatestPut ==
    \A k \in DOMAIN put_log :
        GetPageResult(k) = [ok |-> TRUE, page |-> put_log[k].page]

\* C6 amended: get_page returns the content of the most recent put_page for
\* the key whenever that put left the key dirty (mark_dirty was true, or the
\* key was dirty already).
C6_GetReturnsLatestDirtyPut ==
    \A k \in DOMAIN put_log :
        put_log[k].dirty =>
            GetPageResult(k) = [ok |-> TRUE, page |-> put_log[k].page]

\* a get_page miss has just brought back from the file a page that was put
\* dirty with a record and evicted since
C6_Witness ==
    /\ last.op = "get_page" /\ last.miss
    /\ last.key \in DOMAIN put_log
    /\ put_log[last.key].dirty
    /\ put_log[last.key].page.slot_count = 1
    /\ last.key \in DOMAIN cache
    /\ cache[last.key] = put_log[last.key].page

\* C7: in every reachable buffer-pool state the number of dirty keys is at
\* most the number of cached pages, which is at most the capacity.
C7_DirtyWithinCacheWithinCapacity ==
    /\ Cardinality(dirty_pages) <= Cardinality(DOMAIN cache)
    /\ Cardinality(DOMAIN cache) <= capacity

\* a put_page of a new key into a full pool of dirty pages has just evicted
\* one of them, and the pool is full of dirty pages again
C7_Witness ==
    /\ last.op = "put_page" /\ last.miss
    /\ last.evicted_dirty # {}
    /\ Cardinality(DOMAIN cache) = capacity
    /\ Cardinality(dirty_pages) = capacity
    /\ capacity = 2

\* C19: under LRU, a new key added to a full pool evicts exactly the cached
\* key whose latest get_page or put_page is the oldest; get_page and put_page
\* on a cached key both refresh its recency.
C19_LRUEvictsLeastRecentlyUsed ==
    (policy = "LRU" /\ last.op \in {"get_page", "put_page"}
       /\ last.miss /\ last.full)
        => last.evicted = {last.least_recent}

\* a miss on a full LRU pool of two pages has evicted the page that entered
\* last, because the one that entered first was got or put again since
C19_Witness ==
    /\ policy = "LRU" /\ capacity = 2
    /\ last.op \in {"get_page", "put_page"} /\ last.miss /\ last.full
    /\ last.least_recent # last.first_entered
    /\ last.evicted = {last.least_recent}
    /\ last.first_entered \in DOMAIN cache

\* C20: under FIFO, a new key added to a full pool evicts exactly the cached
\* key that entered the cache earliest; getting or putting a cached key again
\* does not change its place in the eviction order.
C20_FIFOEvictsEarliestEntered ==
    (policy = "FIFO" /\ last.op \in {"get_page", "put_page"}
       /\ last.miss /\ last.full)
        => last.evicted = {last.first_entered}

\* a miss on a full FIFO pool of two pages has evicted the page that entered
\* first although it was the one got or put most recently
C20_Witness ==
    /\ policy = "FIFO" /\ capacity = 2
    /\ last.op \in {"get_page", "put_page"} /\ last.miss /\ last.full
    /\ last.least_recent # last.first_entered
    /\ last.evicted = {last.first_entered}
    /\ last.least_recent \in DOMAIN cache

\* -------------------------------------------------------------------- Spec

\* the encoded sizes of a sequence of rows never decrease
NonDecreasingSizes(rows) ==
    \A i \in 1..(Len(rows) - 1) :
        encode_row(rows[i]).bytes.len <= encode_row(rows[i + 1]).bytes.len

\* C1 as stated: after successful inserts of rows of any sizes into a fresh
\* table, with no delete or update, seq_scan returns exactly the inserted
\* rows in insertion order.
C1_ScanInInsertionOrder == fresh => ScanNow("t") = inserted

\* C1 amended: seq_scan returns exactly the inserted rows, each once; they
\* come in insertion order when no row has a smaller encoded size than a row
\* inserted before it.
C1_ScanReturnsInsertedRows ==
    fresh =>
        /\ BagOf(ScanNow("t")) = BagOf(inserted)
        /\ NonDecreasingSizes(inserted) => ScanNow("t") = inserted

\* three rows of non-decreasing size have been inserted, the last one into a
\* second page
C1_Witness ==
    /\ fresh
    /\ last.op = "insert_row" /\ last.table = "t" /\ last.ok
    /\ Len(inserted) = 3
    /\ NonDecreasingSizes(inserted)
    /\ Len(disk["t"]) = 2
    /\ ScanNow("t") = inserted

\* the rows of a scan that satisfy a predicate
Matching(rows, predicate) ==
    SelectSeq(rows, LAMBDA r : EvalPredicate(predicate, r))

\* C2: update_where replaces every live row that matches the predicate by
\* its transform and loses no row (a record that no longer fits in its page
\* goes to another one), and returns the number of matching rows.
C2_UpdateReplacesEveryMatch ==
    (last.op = "update_where") =>
        /\ last.count = Len(Matching(last.before, last.predicate))
        /\ BagOf(ScanNow("t")) =
             BagOf([i \in 1..Len(last.before) |->
                      IF EvalPredicate(last.predicate, last.before[i])
                      THEN ApplyUpdate(last.update_func, last.before[i])
                      ELSE last.before[i]])

\* C3: delete_where returns the number of live rows that satisfy the
\* predicate, and afterwards seq_scan yields exactly the previously live
\* rows that do not satisfy it, in their previous order.
C3_DeleteRemovesExactlyMatches ==
    (last.op = "delete_where") =>
        /\ last.count = Len(Matching(last.before, last.predicate))
        /\ ScanNow("t") =
             SelectSeq(last.before,
                       LAMBDA r : ~EvalPredicate(last.predicate, r))

\* C4: after close, a new engine on the same data directory scans from every
\* table exactly the rows, in the same order, that seq_scan returned just
\* before close.
C4_ReopenKeepsRows ==
    (last.op = "reopen") =>
        \A tb \in tables : ScanNow(tb) = last.before[tb]

\* C18: after a successful drop_table the buffer pool holds no cached or
\* dirty entry for the table, its file no longer exists and the metadata no
\* longer names it; a create_table with the same name then yields an empty
\* table, and the rows later scanned from it are the ones inserted since.
C18_DropLeavesNothing ==
    /\ (last.op = "drop_table" /\ last.ok) =>
          /\ \A k \in DOMAIN cache \cup dirty_pages : k[1] # last.table
          /\ \A i \in 1..Len(cache_order) : cache_order[i][1] # last.table
          /\ \A i \in 1..Len(fifo_queue) : fifo_queue[i][1] # last.table
          /\ last.table \notin DOMAIN disk
          /\ last.table \notin tables
    /\ (last.op = "create_table" /\ last.raised = "") =>
          /\ last.table \in tables
          /\ disk[last.table] = <<>>
          /\ ScanNow(last.table) = <<>>
    /\ (last.op = "insert_row" /\ last.table = "t" /\ last.ok /\ fresh) =>
          BagOf(ScanNow("t")) = BagOf(inserted)

\* a table dropped while it held two rows and a dirty cached page has just
\* been created again, and is empty
C18_Witness ==
    /\ last.op = "create_table" /\ last.raised = ""
    /\ Len(last.before) >= 2 /\ last.had_dirty
    /\ ScanNow(last.table) = <<>>

\* ----------------------------------------------------- executor claims
\* the rows of a table that a WHERE condition selects
SelectedRows(st, table_name, cond) ==
    SelectSeq(StoreSeqScan(st, table_name), LAMBDA row : Selected(cond, row))

\* some live row of the table holds the value in the column
HasValue(st, table_name, column_name, value) ==
    /\ table_name \in DOMAIN st
    /\ \E row \in Range(StoreSeqScan(st, table_name)) :
          Field(row, column_name) = value

\* the statement, run on the store, breaks a declared foreign key: an INSERT
\* or UPDATE gives a child row a non-NULL value its parent lacks; a DELETE or
\* UPDATE takes away a referenced value that a child row holds
ViolatesForeignKey(st, fks, statement) ==
    /\ statement.table \in DOMAIN st
    /\ \E d \in fks :
          \/ /\ statement.op = "INSERT" /\ d.child = statement.table
             /\ Field(statement.values, d.column) # NULL
             /\ ~HasValue(st, d.parent, d.ref_column,
                          Field(statement.values, d.column))
          \/ /\ statement.op = "DELETE" /\ d.parent = statement.table
             /\ \E row \in Range(SelectedRows(st, statement.table, statement.cond)) :
                   /\ Field(row, d.ref_column) # NULL
                   /\ HasValue(st, d.child, d.column, Field(row, d.ref_column))
          \/ /\ statement.op = "UPDATE" /\ d.child = statement.table
             /\ statement.set.col = d.column /\ statement.set.val # NULL
             /\ \E row \in Range(SelectedRows(st, statement.table, statement.cond)) :
                   Field(row, d.column) # statement.set.val
             /\ ~HasValue(st, d.parent, d.ref_column, statement.set.val)
          \/ /\ statement.op = "UPDATE" /\ d.parent = statement.table
             /\ statement.set.col = d.ref_column
             /\ \E row \in Range(SelectedRows(st, statement.table, statement.cond)) :
                   /\ Field(row, d.ref_column) # statement.set.val
                   /\ Field(row, d.ref_column) # NULL
                   /\ HasValue(st, d.child, d.column, Field(row, d.ref_column))

\* C11: for every user table the row_count recorded in sys_tables equals the
\* number of live records on the table's data pages, after any sequence of
\* INSERT, DELETE, UPDATE and ALTER TABLE statements.
C11_RowCountEqualsLiveRecords ==
    \A r \in catalog.sys_tables :
        r.table_name \in DOMAIN store =>
            r.row_count = Len(StoreSeqScan(store, r.table_name))

\* C12: an INSERT, UPDATE or DELETE that violates a foreign key fails with
\* a DML error and has modified no page of any table.
C12_ViolationAbortsBeforeAnyWrite ==
    [][(/\ last'.op \in {"INSERT", "UPDATE", "DELETE"}
        /\ ViolatesForeignKey(store, declared, last'))
       => (last'.status = "error" /\ store' = store)]_vars

\* C13: a DELETE on a parent table is rejected whenever a child row's
\* foreign-key column equals the referenced value of a row selected for
\* deletion, and the rejected DELETE leaves parent and child unchanged.
C13_DeleteOfReferencedRowRestricted ==
    [][(/\ last'.op = "DELETE" /\ last'.table \in DOMAIN store
        /\ \E d \in declared :
              /\ d.parent = last'.table
              /\ \E row \in Range(SelectedRows(store, last'.table, last'.cond)) :
                    /\ Field(row, d.ref_column) # NULL
                    /\ HasValue(store, d.child, d.column, Field(row, d.ref_column)))
       => (/\ last'.status = "error"
           /\ \A d \in declared :
                 d.parent = last'.table =>
                    /\ store'[d.parent] = store[d.parent]
                    /\ store'[d.child] = store[d.child])]_vars

\* C14: an INSERT into a child table with a non-NULL foreign-key value is
\* accepted only if the parent holds a live row whose referenced column
\* equals the value; a NULL foreign-key value is never refused.
C14_ChildInsertNeedsParentRow ==
    [][(last'.op = "INSERT" /\ last'.table \in DOMAIN store) =>
          \A d \in declared :
             d.child = last'.table =>
                /\ (last'.status = "success"
                    /\ Field(last'.values, d.column) # NULL)
                   => HasValue(store, d.parent, d.ref_column,
                               Field(last'.values, d.column))
                /\ (\A e \in declared :
                       e.child = last'.table
                          => Field(last'.values, e.column) = NULL)
                   => last'.raised # "ForeignKeyValidationError"]_vars

\* C15: every foreign key recorded in the catalog has its child table and
\* its parent table registered, with the foreign-key column in the child
\* and the referenced column in the parent.
C15_ForeignKeysReferToRegisteredTables ==
    \A i \in 1..Len(fk_cache) :
        /\ \E table_name \in DOMAIN catalog.table_cache :
              /\ catalog.table_cache[table_name].table_id = fk_cache[i].table_id
              /\ column_exists(catalog, table_name, fk_cache[i].column_name)
        /\ \E table_name \in DOMAIN catalog.table_cache :
              /\ catalog.table_cache[table_name].table_id = fk_cache[i].ref_table_id
              /\ column_exists(catalog, table_name, fk_cache[i].ref_column_name)

\* C16: whatever an ALTER TABLE does, failing or not, afterwards the table
\* is there under its old name and schema, or under its new name and
\* schema, with as many rows as it had.
C16_AlterSubstitutesWholeTable ==
    [][(last'.op = "ALTER" /\ last'.plan.table \in DOMAIN store) =>
          LET plan == last'.plan
              src  == plan.table
              dest == IF plan.action = "RENAME" THEN plan.new_name ELSE src
              cols == new_cols(store[src].columns, plan).columns
          IN  \/ /\ src \in DOMAIN store'
                 /\ store'[src].columns = store[src].columns
                 /\ BagOf(StoreSeqScan(store', src)) = BagOf(StoreSeqScan(store, src))
              \/ /\ dest \in DOMAIN store'
                 /\ store'[dest].columns = cols
                 /\ Len(StoreSeqScan(store', dest)) = Len(StoreSeqScan(store, src))]_vars

\* C17: after a successful ALTER TABLE the resulting table holds, in the
\* original scan order, the row mapper's image of each row of the original
\* table, none dropped and none duplicated.
C17_AlterMapsEveryRowInOrder ==
    [][(last'.op = "ALTER" /\ last'.status = "success") =>
          LET plan == last'.plan
              dest == IF plan.action = "RENAME" THEN plan.new_name ELSE plan.table
              rows == StoreSeqScan(store, plan.table)
          IN  StoreSeqScan(store', dest) =
                 [i \in 1..Len(rows) |-> row_mapper(plan, rows[i])]]_vars

\* ------------------------------------------------- query operator claims
\* three-valued and, or, not: NULL is neither true nor false
RECURSIVE Kleene(_)
Kleene(expression) ==
    IF "type" \notin DOMAIN expression THEN expression
    ELSE IF expression.type = "not"
    THEN LET x == Kleene(expression.condition)
         IN  IF x = NULL THEN NULL ELSE BoolVal(~x.v)
    ELSE LET l == Kleene(expression.left)
             r == Kleene(expression.right)
             absorbing == BoolVal(expression.type = "or")
         IN  IF l = absorbing \/ r = absorbing THEN absorbing
             ELSE IF l = NULL \/ r = NULL THEN NULL
             ELSE BoolVal(~absorbing.v)

\* C21: and(false, NULL) = false, or(true, NULL) = true, and every other
\* and / or / not with a NULL operand evaluates to NULL, not true or false.
C21_ThreeValuedLogic ==
    last.op = "evaluate" => last.result = Kleene(last.expression)

\* C22: with no group keys the whole input is one group: exactly one output
\* row for any child stream; for an empty stream COUNT is 0 and SUM, AVG,
\* MIN and MAX are NULL.
C22_GlobalAggregateYieldsOneRow ==
    (last.op = "GroupAggregate" /\ last.group_keys = <<>>) =>
        /\ Len(last.result) = 1
        /\ last.rows = <<>> =>
              /\ last.result[1].cnt_all = IntVal(0)
              /\ last.result[1].cnt = IntVal(0)
              /\ \A a \in {"sum", "avg", "min", "max"} : last.result[1][a] = NULL

Min(a, b) == IF a < b THEN a ELSE b

\* C23: Limit yields the child's rows offset+1 .. offset+count, fewer if
\* the child ends earlier, in child order, and pulls no more than
\* offset + count rows from the child.
C23_LimitYieldsWindowWithoutDraining ==
    last.op = "Limit" =>
        LET window == SubSeq(last.rows, last.offset + 1,
                             Min(last.offset + last.count, Len(last.rows)))
        IN  /\ last.result = SubSeq(window, 1, Min(last.asks, Len(window)))
            /\ last.pulled <= last.offset + last.count

\* what a LEFT join owes for its left rows: a row for each matching right
\* row, or one row with every right-side column NULL
RECURSIVE LeftJoinOwed(_, _)
LeftJoinOwed(left_data, right_rows) ==
    IF left_data = <<>> THEN <<>>
    ELSE LET l == Head(left_data)
             matches == SelectSeq(right_rows, LAMBDA r :
                           l.id # NULL /\ r.id # NULL /\ l.id = r.id)
             nulls == [c \in {"l.id", "r.id", "r.b"} |->
                          IF c = "l.id" THEN l.id ELSE NULL]
         IN  (IF matches = <<>> THEN <<nulls>>
              ELSE [i \in 1..Len(matches) |->
                      [c \in {"l.id", "r.id", "r.b"} |->
                          CASE c = "l.id" -> l.id
                            [] c = "r.id" -> matches[i].id
                            [] OTHER -> matches[i].b]])
             \o LeftJoinOwed(Tail(left_data), right_rows)

\* C24: in a LEFT join, for any right input, an empty one included, every
\* unmatched left row is yielded exactly once with every right-side column
\* present and NULL, and every matching left row once per matching right row.
C24_LeftJoinFillsRightColumnsWithNull ==
    last.op = "LeftJoin" =>
        BagOf(last.result) = BagOf(LeftJoinOwed(last.left, last.right))

\* C25: encoding a row in which a value has the wrong kind for its column
\* is an error; the codec never converts the value to the column's type.
C25_WrongKindIsAnError ==
    (/\ last.op = "encode"
     /\ \E i \in 1..Len(Columns) :
           /\ last.row[Columns[i].name] # NULL
           /\ last.row[Columns[i].name].kind #
                 (IF Columns[i].type = "INT" THEN "int" ELSE "str"))
    => last.raised # ""

\* C26: every removal of a page from the cache, by capacity replacement,
\* table eviction, clear_cache or close, appends exactly one event for
\* that (table, page_id) to the eviction log, with was_dirty telling
\* whether the page was dirty just before and a reason out of the four.
C26_EveryRemovalLogged ==
    "events" \in DOMAIN last =>
        \A k \in last.evicted :
            LET logged == {i \in 1..Len(last.events) :
                              /\ last.events[i].table_name = k[1]
                              /\ last.events[i].page_id = k[2]}
            IN  /\ Cardinality(logged) = 1
                /\ \A i \in logged :
                      /\ last.events[i].was_dirty = (k \in last.evicted_dirty)
                      /\ last.events[i].reason \in
                            {"capacity_full", "manual_flush",
                             "table_eviction", "shutdown"}

\* C27: an insert_row call that does not succeed leaves the table as it
\* was: no row becomes visible to a scan and no data page is allocated, so
\* an INSERT that reports an error changes nothing in the store.
C27_FailedInsertChangesNothing ==
    [][(last'.op = "INSERT" /\ last'.raised # "") => store' = store]_vars

\* C28: between storage-engine operations every cached page that is not in
\* the dirty set is identical to its copy in the table file, so evicting a
\* clean page and reading it again changes nothing a scan observes.
C28_CleanPagesMatchDisk ==
    \A key \in DOMAIN cache :
        key \notin dirty_pages =>
            /\ key[1] \in DOMAIN disk
            /\ key[2] \in 1..Len(disk[key[1]])
            /\ cache[key] = disk[key[1]][key[2]]

\* every child row of a declared foreign key with a non-NULL value in the
\* foreign-key column has a live parent row holding that value
ReferentialIntegrity(st) ==
    \A d \in declared :
        d.child \in DOMAIN st =>
            \A row \in Range(StoreSeqScan(st, d.child)) :
                Field(row, d.column) # NULL =>
                    HasValue(st, d.parent, d.ref_column, Field(row, d.column))

\* C29: after any sequence of accepted INSERT, UPDATE and DELETE statements
\* on tables linked by a foreign key, every child row with a non-NULL
\* foreign-key value has a live parent row with that value. The catalog has
\* issued two table ids as long as no ALTER TABLE has rewritten a table.
C29_ReferentialIntegrity ==
    catalog.next_table_id = 3 => ReferentialIntegrity(store)

\* C30: for a column declared PRIMARY KEY or UNIQUE, after any sequence of
\* accepted INSERT and UPDATE statements no two live rows of the table hold
\* the same non-NULL value in that column. The catalog has issued two table
\* ids as long as no ALTER TABLE has rewritten a table.
C30_UniqueColumnsHoldDistinctValues ==
    catalog.next_table_id = 3 =>
        \A table_name \in DOMAIN store :
            \A col \in Range(get_table_columns(catalog, table_name)) :
                (constraints(col).unique \/ constraints(col).primary_key) =>
                    LET rows == StoreSeqScan(store, table_name)
                    IN  \A i, j \in 1..Len(rows) :
                            (/\ i # j
                             /\ Field(rows[i], col.name) # NULL)
                            => Field(rows[i], col.name) # Field(rows[j], col.name)


====
